---- MODULE Spec2Model ----
(***************************************************************************)
(* A model of goreasoner's reasoning kernel: the TripleStore (membership   *)
(* set, insertion-ordered list, subject/predicate/object indices), the     *)
(* thirteen RDFS/OWL rules, the Reasoner's fixed-point loop, pattern query *)
(* and exports, and the Datalog evaluator.  Terms are strings, as in the   *)
(* source; a triple is a record of three strings.                          *)
(***************************************************************************)
EXTENDS Integers, Sequences, FiniteSets, TLC

VARIABLES
    store,           \* Reasoner.store: the TripleStore (a record of its five fields)
    pc,              \* "idle", or "rules" while RunForwardReasoning is in its loop
    ruleIdx,         \* position of the loop `for _, rule := range r.rules`
    newInThisRound,  \* RunForwardReasoning's local of that name
    totalInferred,   \* RunForwardReasoning's local of that name
    call,            \* history: the last call of the API, its arguments and result
    everAdded,       \* history: every triple ever passed to TripleStore.Add
    nCalls,          \* history: number of Add and LoadTurtle calls so far
    inferred,        \* RunForwardReasoning's local of that name: what rule.Apply returned
    program,         \* the DatalogProgram: its Facts and its Rules
    loaded,          \* history: every triple handed to the reasoner by Add or LoadTurtle
    parser           \* Reasoner.parser: the prefixes and the base of the TurtleParser

vars == <<store, pc, ruleIdx, newInThisRound, totalInferred, call, everAdded, nCalls,
          inferred, program, loaded, parser>>

-----------------------------------------------------------------------------
(* rules.go: the well-known IRIs *)

RDFType == "http://www.w3.org/1999/02/22-rdf-syntax-ns#type"
RDFSSubClassOf == "http://www.w3.org/2000/01/rdf-schema#subClassOf"
RDFSSubPropertyOf == "http://www.w3.org/2000/01/rdf-schema#subPropertyOf"
RDFSDomain == "http://www.w3.org/2000/01/rdf-schema#domain"
RDFSRange == "http://www.w3.org/2000/01/rdf-schema#range"
OWLEquivalentClass == "http://www.w3.org/2002/07/owl#equivalentClass"
OWLSameAs == "http://www.w3.org/2002/07/owl#sameAs"
OWLInverseOf == "http://www.w3.org/2002/07/owl#inverseOf"
OWLTransitiveProperty == "http://www.w3.org/2002/07/owl#TransitiveProperty"
OWLSymmetricProperty == "http://www.w3.org/2002/07/owl#SymmetricProperty"

-----------------------------------------------------------------------------
(* Sequences *)

Range(s) == {s[i] : i \in 1..Len(s)}

RECURSIVE Flatten(_)
Flatten(ss) == IF ss = <<>> THEN <<>> ELSE Head(ss) \o Flatten(Tail(ss))

IsPrefix(s, t) == Len(s) <= Len(t) /\ SubSeq(t, 1, Len(s)) = s

Count(s, x) == Cardinality({i \in 1..Len(s) : s[i] = x})

\* the orders in which a Go `for k := range m` may visit the keys S of a map
Orders(S) == {f \in [1..Cardinality(S) -> S] : \A i, j \in 1..Cardinality(S) : i # j => f[i] # f[j]}

-----------------------------------------------------------------------------
(* The triple store *)

Triple(s, p, o) == [Subject |-> s, Predicate |-> p, Object |-> o]

\* reading a Go map: a missing key reads as the zero value (a nil slice)
Lookup(m, k) == IF k \in DOMAIN m THEN m[k] ELSE <<>>

\* m[k] = append(m[k], idx)
Append1(m, k, idx) == [x \in DOMAIN m \cup {k} |-> IF x = k THEN Append(Lookup(m, k), idx) ELSE m[x]]

NewTripleStore ==
    [triples |-> {}, tripleList |-> <<>>,
     bySubject |-> <<>>, byPredicate |-> <<>>, byObject |-> <<>>]

tripleKey(t) == t.Subject \o "|" \o t.Predicate \o "|" \o t.Object

Contains(ts, t) == tripleKey(t) \in ts.triples

\* Add with the new position filed under the subject in the object index
AddMisfilesObject(ts, t) ==
    IF t.Subject \o "|" \o t.Predicate \o "|" \o t.Object \in ts.triples
    THEN [store |-> ts, new |-> FALSE]
    ELSE LET idx == Len(ts.tripleList)
         IN  [store |-> [triples |-> ts.triples \cup {t.Subject \o "|" \o t.Predicate \o "|" \o t.Object},
                         tripleList |-> Append(ts.tripleList, t),
                         bySubject |-> Append1(ts.bySubject, t.Subject, idx),
                         byPredicate |-> Append1(ts.byPredicate, t.Predicate, idx),
                         byObject |-> Append1(ts.byObject, t.Subject, idx)],
              new |-> TRUE]

\* Add that puts the new triple at the front of the list
AddInFront(ts, t) ==
    IF t.Subject \o "|" \o t.Predicate \o "|" \o t.Object \in ts.triples
    THEN [store |-> ts, new |-> FALSE]
    ELSE LET idx == Len(ts.tripleList)
         IN  [store |-> [triples |-> ts.triples \cup {t.Subject \o "|" \o t.Predicate \o "|" \o t.Object},
                         tripleList |-> <<t>> \o ts.tripleList,
                         bySubject |-> Append1(ts.bySubject, t.Subject, idx),
                         byPredicate |-> Append1(ts.byPredicate, t.Predicate, idx),
                         byObject |-> Append1(ts.byObject, t.Object, idx)],
              new |-> TRUE]

\* Add: the store after the call (.store) and the value returned (.new).
\* Positions are Go's, from 0: tripleList[idx] is the model's tripleList[idx + 1].
Add(ts, t) ==
    IF tripleKey(t) \in ts.triples
    THEN [store |-> ts, new |-> FALSE]
    ELSE LET idx == Len(ts.tripleList)
         IN  [store |-> [triples |-> ts.triples \cup {tripleKey(t)},
                         tripleList |-> Append(ts.tripleList, t),
                         bySubject |-> Append1(ts.bySubject, t.Subject, idx),
                         byPredicate |-> Append1(ts.byPredicate, t.Predicate, idx),
                         byObject |-> Append1(ts.byObject, t.Object, idx)],
              new |-> TRUE]

\* result = append(result, ts.tripleList[idx]) for each idx of an index entry
AtPositions(ts, idxs) == [i \in 1..Len(idxs) |-> ts.tripleList[idxs[i] + 1]]

FindBySubject(ts, subject) == AtPositions(ts, Lookup(ts.bySubject, subject))

FindByPredicate(ts, predicate) == AtPositions(ts, Lookup(ts.byPredicate, predicate))

FindByObject(ts, object) == AtPositions(ts, Lookup(ts.byObject, object))

FindBySubjectPredicate(ts, subject, predicate) ==
    SelectSeq(FindBySubject(ts, subject), LAMBDA t : t.Predicate = predicate)

FindByPredicateObject(ts, predicate, object) ==
    SelectSeq(FindByPredicate(ts, predicate), LAMBDA t : t.Object = object)

All(ts) == ts.tripleList

Size(ts) == Len(ts.tripleList)

-----------------------------------------------------------------------------
(* The rules.  Each Apply reads the store and returns the proposed triples *)
(* in the order its loops append them.                                     *)

\* `for _, x := range outer { for _, y := range inner(x) { ... append ... } }`
Nested(outer, inner(_)) == Flatten([i \in 1..Len(outer) |-> inner(outer[i])])

\* SubClassTransitivity without the test `a != c`
SubClassTransitivityReflexive(ts) ==
    Nested(FindByPredicate(ts, RDFSSubClassOf),
           LAMBDA t1 :
             LET found == FindBySubjectPredicate(ts, t1.Object, RDFSSubClassOf)
                 cand == [j \in 1..Len(found) |-> Triple(t1.Subject, RDFSSubClassOf, found[j].Object)]
             IN  SelectSeq(cand, LAMBDA n : ~Contains(ts, n)))

SubClassTransitivity(ts) ==
    Nested(FindByPredicate(ts, RDFSSubClassOf),
           LAMBDA t1 :
             LET a == t1.Subject
                 b == t1.Object
                 found == FindBySubjectPredicate(ts, b, RDFSSubClassOf)
                 cand == [j \in 1..Len(found) |-> Triple(a, RDFSSubClassOf, found[j].Object)]
             IN  SelectSeq(cand, LAMBDA n : ~Contains(ts, n) /\ a # n.Object))

TypeInheritance(ts) ==
    Nested(FindByPredicate(ts, RDFType),
           LAMBDA t :
             LET x == t.Subject
                 a == t.Object
                 found == FindBySubjectPredicate(ts, a, RDFSSubClassOf)
                 cand == [j \in 1..Len(found) |-> Triple(x, RDFType, found[j].Object)]
             IN  SelectSeq(cand, LAMBDA n : ~Contains(ts, n)))

DomainInferenceSubClass(ts) ==
    Nested(FindByPredicate(ts, RDFSDomain),
           LAMBDA dt :
             LET found == FindByPredicate(ts, dt.Subject)
                 cand == [j \in 1..Len(found) |->
                            Triple(found[j].Subject, RDFSSubClassOf, dt.Object)]
             IN  SelectSeq(cand, LAMBDA n : ~Contains(ts, n)))

DomainInference(ts) ==
    Nested(FindByPredicate(ts, RDFSDomain),
           LAMBDA dt :
             LET p == dt.Subject
                 c == dt.Object
                 found == FindByPredicate(ts, p)
                 cand == [j \in 1..Len(found) |-> Triple(found[j].Subject, RDFType, c)]
             IN  SelectSeq(cand, LAMBDA n : ~Contains(ts, n)))

\* len(y) > 0 && y[0] == '"'
IsLiteral(y) == Len(y) > 0 /\ SubSeq(y, 1, 1) = "\""

\* RangeInference without the literal test
RangeInferenceTypesLiterals(ts) ==
    Nested(FindByPredicate(ts, RDFSRange),
           LAMBDA rt :
             LET found == FindByPredicate(ts, rt.Subject)
                 cand == [j \in 1..Len(found) |-> Triple(found[j].Object, RDFType, rt.Object)]
             IN  SelectSeq(cand, LAMBDA n : ~Contains(ts, n)))

RangeInference(ts) ==
    Nested(FindByPredicate(ts, RDFSRange),
           LAMBDA rt :
             LET p == rt.Subject
                 c == rt.Object
                 found == SelectSeq(FindByPredicate(ts, p), LAMBDA t : ~IsLiteral(t.Object))
                 cand == [j \in 1..Len(found) |-> Triple(found[j].Object, RDFType, c)]
             IN  SelectSeq(cand, LAMBDA n : ~Contains(ts, n)))

SubPropertyTransitivity(ts) ==
    Nested(FindByPredicate(ts, RDFSSubPropertyOf),
           LAMBDA t1 :
             LET p1 == t1.Subject
                 p2 == t1.Object
                 found == FindBySubjectPredicate(ts, p2, RDFSSubPropertyOf)
                 cand == [j \in 1..Len(found) |-> Triple(p1, RDFSSubPropertyOf, found[j].Object)]
             IN  SelectSeq(cand, LAMBDA n : ~Contains(ts, n) /\ p1 # n.Object))

SubPropertyInheritance(ts) ==
    Nested(FindByPredicate(ts, RDFSSubPropertyOf),
           LAMBDA sp :
             LET p1 == sp.Subject
                 p2 == sp.Object
                 found == FindByPredicate(ts, p1)
                 cand == [j \in 1..Len(found) |-> Triple(found[j].Subject, p2, found[j].Object)]
             IN  SelectSeq(cand, LAMBDA n : ~Contains(ts, n)))

EquivalentClassSymmetry(ts) ==
    LET eqTriples == FindByPredicate(ts, OWLEquivalentClass)
        cand == [j \in 1..Len(eqTriples) |->
                   Triple(eqTriples[j].Object, OWLEquivalentClass, eqTriples[j].Subject)]
    IN  SelectSeq(cand, LAMBDA n : ~Contains(ts, n))

EquivalentClassTransitivity(ts) ==
    Nested(FindByPredicate(ts, OWLEquivalentClass),
           LAMBDA t1 :
             LET a == t1.Subject
                 b == t1.Object
                 found == FindBySubjectPredicate(ts, b, OWLEquivalentClass)
                 cand == [j \in 1..Len(found) |-> Triple(a, OWLEquivalentClass, found[j].Object)]
             IN  SelectSeq(cand, LAMBDA n : ~Contains(ts, n) /\ a # n.Object))

SameAsSymmetry(ts) ==
    LET sameAsTriples == FindByPredicate(ts, OWLSameAs)
        cand == [j \in 1..Len(sameAsTriples) |->
                   Triple(sameAsTriples[j].Object, OWLSameAs, sameAsTriples[j].Subject)]
    IN  SelectSeq(cand, LAMBDA n : ~Contains(ts, n))

SameAsTransitivity(ts) ==
    Nested(FindByPredicate(ts, OWLSameAs),
           LAMBDA t1 :
             LET a == t1.Subject
                 b == t1.Object
                 found == FindBySubjectPredicate(ts, b, OWLSameAs)
                 cand == [j \in 1..Len(found) |-> Triple(a, OWLSameAs, found[j].Object)]
             IN  SelectSeq(cand, LAMBDA n : ~Contains(ts, n) /\ a # n.Object))

InversePropertyInference(ts) ==
    Nested(FindByPredicate(ts, OWLInverseOf),
           LAMBDA inv :
             LET p1 == inv.Subject
                 p2 == inv.Object
                 f1 == FindByPredicate(ts, p1)
                 f2 == FindByPredicate(ts, p2)
                 c1 == [j \in 1..Len(f1) |-> Triple(f1[j].Object, p2, f1[j].Subject)]
                 c2 == [j \in 1..Len(f2) |-> Triple(f2[j].Object, p1, f2[j].Subject)]
             IN  SelectSeq(c1, LAMBDA n : ~Contains(ts, n))
                   \o SelectSeq(c2, LAMBDA n : ~Contains(ts, n)))

\* the keys of the map transitiveProps / symmetricProps
PropsOfKind(ts, kind) == {t.Subject : t \in Range(FindByPredicateObject(ts, RDFType, kind))}

\* `order` is the order in which `for prop := range transitiveProps` visits the keys
TransitivePropertyInference(ts, order) ==
    Nested(order,
           LAMBDA prop :
             Nested(FindByPredicate(ts, prop),
                    LAMBDA t1 :
                      LET x == t1.Subject
                          y == t1.Object
                          found == FindBySubjectPredicate(ts, y, prop)
                          cand == [j \in 1..Len(found) |-> Triple(x, prop, found[j].Object)]
                      IN  SelectSeq(cand, LAMBDA n : ~Contains(ts, n) /\ x # n.Object)))

\* `order` is the order in which `for prop := range symmetricProps` visits the keys
SymmetricPropertyInference(ts, order) ==
    Nested(order,
           LAMBDA prop :
             LET found == FindByPredicate(ts, prop)
                 cand == [j \in 1..Len(found) |-> Triple(found[j].Object, prop, found[j].Subject)]
             IN  SelectSeq(cand, LAMBDA n : ~Contains(ts, n)))

\* DefaultRules()[i - 1].Apply(ts); `order` matters to rules 12 and 13 only
NumRules == 13

RuleOrders(ts, i) ==
    CASE i = 12 -> Orders(PropsOfKind(ts, OWLTransitiveProperty))
      [] i = 13 -> Orders(PropsOfKind(ts, OWLSymmetricProperty))
      [] OTHER -> {<<>>}

\* the keys of the map in the order in which the triples that declare them
\* were inserted
RECURSIVE FirstOccurrences(_)
FirstOccurrences(seq) ==
    IF seq = <<>> THEN <<>>
    ELSE LET before == FirstOccurrences(SubSeq(seq, 1, Len(seq) - 1))
             last == seq[Len(seq)]
         IN  IF last \in Range(before) THEN before ELSE Append(before, last)

PropsInOrder(ts, kind) ==
    LET found == FindByPredicateObject(ts, RDFType, kind)
    IN  FirstOccurrences([j \in 1..Len(found) |-> found[j].Subject])

\* the order of the driving index: the one order of RuleOrders(ts, i) that
\* follows the insertion order
InsertionOrder(ts, i) ==
    CASE i = 12 -> PropsInOrder(ts, OWLTransitiveProperty)
      [] i = 13 -> PropsInOrder(ts, OWLSymmetricProperty)
      [] OTHER -> <<>>

DefaultRules(ts, i, order) ==
    CASE i = 1 -> SubClassTransitivity(ts)
      [] i = 2 -> TypeInheritance(ts)
      [] i = 3 -> DomainInference(ts)
      [] i = 4 -> RangeInference(ts)
      [] i = 5 -> SubPropertyTransitivity(ts)
      [] i = 6 -> SubPropertyInheritance(ts)
      [] i = 7 -> EquivalentClassSymmetry(ts)
      [] i = 8 -> EquivalentClassTransitivity(ts)
      [] i = 9 -> SameAsSymmetry(ts)
      [] i = 10 -> SameAsTransitivity(ts)
      [] i = 11 -> InversePropertyInference(ts)
      [] i = 12 -> TransitivePropertyInference(ts, order)
      [] i = 13 -> SymmetricPropertyInference(ts, order)

-----------------------------------------------------------------------------
(* Strings: the N-Triples line of a triple, and Go's order on strings       *)

HasPrefix(s, prefix) == Len(s) >= Len(prefix) /\ SubSeq(s, 1, Len(prefix)) = prefix

\* formatTerm: an http or https IRI goes between angle brackets; every other
\* branch of the function returns the term as it is
formatTerm(term) ==
    IF HasPrefix(term, "http://") \/ HasPrefix(term, "https://")
    THEN "<" \o term \o ">"
    ELSE term

\* Triple.String: fmt.Sprintf("%s %s %s .", subj, pred, obj)
String(t) ==
    formatTerm(t.Subject) \o " " \o formatTerm(t.Predicate) \o " " \o formatTerm(t.Object) \o " ."

\* the printable ASCII characters in the order of their bytes, from the space
\* on (the backquote, which no term of the model holds, is left out)
Ascii ==
    " !\"#$%&'()*+,-./0123456789:;<=>?@ABCDEFGHIJKLMNOPQRSTUVWXYZ[\\]^_abcdefghijklmnopqrstuvwxyz{|}~"

\* the place of a character in that order
ByteOf == [c \in {SubSeq(Ascii, i, i) : i \in 1..Len(Ascii)} |->
             CHOOSE i \in 1..Len(Ascii) : SubSeq(Ascii, i, i) = c]

\* Go's s < t on strings that agree before position i: the order of the bytes
RECURSIVE LessFrom(_, _, _)
LessFrom(s, t, i) ==
    IF i > Len(t) THEN FALSE
    ELSE IF i > Len(s) THEN TRUE
    ELSE IF SubSeq(s, i, i) = SubSeq(t, i, i) THEN LessFrom(s, t, i + 1)
    ELSE ByteOf[SubSeq(s, i, i)] < ByteOf[SubSeq(t, i, i)]

Less(s, t) == LessFrom(s, t, 1)

\* x put into the sorted list `sorted`, after the entries that are not greater
RECURSIVE Insert(_, _)
Insert(x, sorted) ==
    IF sorted = <<>> THEN <<x>>
    ELSE IF Less(x, Head(sorted)) THEN <<x>> \o sorted
    ELSE <<Head(sorted)>> \o Insert(x, Tail(sorted))

\* sort.Strings
RECURSIVE SortStrings(_)
SortStrings(ss) == IF ss = <<>> THEN <<>> ELSE Insert(Head(ss), SortStrings(Tail(ss)))

IsSorted(ss) == \A i \in 1..(Len(ss) - 1) : ~Less(ss[i + 1], ss[i])

\* Reasoner.GetAllTriples
GetAllTriples(ts) == SortStrings([i \in 1..Len(All(ts)) |-> String(All(ts)[i])])

-----------------------------------------------------------------------------
(* The inputs of the model *)

\* the caller makes at most MaxCalls calls of Add and LoadTurtle
MaxCalls == 3

\* ... at most MaxFairCalls of them where termination is checked
MaxFairCalls == 2

\* ... and at most MaxReadCalls of them where the read-only calls are checked
MaxReadCalls == 2

\* ... and at most MaxStepCalls of them where a rule's return is a step of its own
MaxStepCalls == 2

\* a rule is applied to stores of at most MaxRuleTriples triples
MaxRuleTriples == 3

A == "ex:a"
B == "ex:b"
C == "ex:c"
V == "\"v|w\""

\* The triples handed to Add one at a time: the declarations that make ex:a
\* transitive, symmetric and its own inverse, and two triples of which one
\* has terms cut at other places of the same characters as the other.
InputTriples ==
    { Triple(A, RDFType, OWLTransitiveProperty),
      Triple(A, RDFType, OWLSymmetricProperty),
      Triple(A, OWLInverseOf, A),
      Triple(V, A, C),
      Triple("\"v", "w\"", "ex:a|ex:c") }

\* What Parse returns for the texts handed to LoadTurtle: a class cycle with
\* an instance, a property chain that ends in a literal, a domain and a range,
\* and a subPropertyOf chain into owl:equivalentClass and owl:sameAs with a
\* second symmetric property.
Documents ==
    { << Triple(A, RDFSSubClassOf, B), Triple(B, RDFSSubClassOf, C), Triple(C, RDFType, A),
         Triple(C, RDFSSubClassOf, A) >>,
      << Triple(B, A, C), Triple(C, A, V) >>,
      << Triple(A, RDFSDomain, C), Triple(A, RDFSRange, C) >>,
      << Triple(A, RDFSSubPropertyOf, OWLEquivalentClass),
         Triple(OWLEquivalentClass, RDFSSubPropertyOf, OWLSameAs),
         Triple(RDFType, RDFType, OWLSymmetricProperty) >> }

-----------------------------------------------------------------------------
(* The reasoner *)

\* AddAll with the count raised for every triple, new or not
RECURSIVE AddAllCountsProposals(_, _, _)
AddAllCountsProposals(ts, triples, n) ==
    IF triples = <<>> THEN [store |-> ts, count |-> n]
    ELSE CHOOSE out \in {AddAllCountsProposals(r.store, Tail(triples), n + 1) :
                           r \in {Add(ts, Head(triples))}} : TRUE

\* `for _, t := range ts { if store.Add(t) { n++ } }`: the store and the count
\* after.  r, the result of one Add, is bound once per iteration.
RECURSIVE AddAll(_, _, _)
AddAll(ts, triples, n) ==
    IF triples = <<>> THEN [store |-> ts, count |-> n]
    ELSE CHOOSE out \in {AddAll(r.store, Tail(triples), IF r.new THEN n + 1 ELSE n) :
                           r \in {Add(ts, Head(triples))}} : TRUE

\* Query with the object filter left out where only the subject is bound
QueryDropsObjectFilter(ts, subject, predicate, object) ==
    IF subject # "" /\ predicate # ""
    THEN SelectSeq(FindBySubjectPredicate(ts, subject, predicate),
                   LAMBDA t : object = "" \/ t.Object = object)
    ELSE IF subject # ""
    THEN SelectSeq(FindBySubject(ts, subject),
                   LAMBDA t : predicate = "" \/ t.Predicate = predicate)
    ELSE IF predicate # ""
    THEN SelectSeq(FindByPredicate(ts, predicate), LAMBDA t : object = "" \/ t.Object = object)
    ELSE IF object # ""
    THEN FindByObject(ts, object)
    ELSE All(ts)

\* Reasoner.Query: the empty string is the wildcard
Query(ts, subject, predicate, object) ==
    IF subject # "" /\ predicate # ""
    THEN SelectSeq(FindBySubjectPredicate(ts, subject, predicate),
                   LAMBDA t : object = "" \/ t.Object = object)
    ELSE IF subject # ""
    THEN SelectSeq(FindBySubject(ts, subject),
                   LAMBDA t : (predicate = "" \/ t.Predicate = predicate)
                                /\ (object = "" \/ t.Object = object))
    ELSE IF predicate # ""
    THEN SelectSeq(FindByPredicate(ts, predicate), LAMBDA t : object = "" \/ t.Object = object)
    ELSE IF object # ""
    THEN FindByObject(ts, object)
    ELSE All(ts)

\* One round of RunForwardReasoning from rule i on, as a function: each map
\* is visited in one order, the same for the same store, the order in which
\* its keys were inserted.
RECURSIVE RunRound(_, _, _)
RunRound(ts, i, n) ==
    IF i > NumRules THEN [store |-> ts, count |-> n]
    ELSE CHOOSE out \in {RunRound(r.store, i + 1, r.count) :
                           r \in {AddAll(ts, DefaultRules(ts, i, InsertionOrder(ts, i)), n)}} : TRUE

\* the store after one such run of RunForwardReasoning on the store ts
RECURSIVE Saturate(_)
Saturate(ts) ==
    CHOOSE out \in {IF r.count = 0 THEN r.store ELSE Saturate(r.store) :
                      r \in {RunRound(ts, 1, 0)}} : TRUE

\* NewTurtleParser: no prefix and no base
NewTurtleParser == [prefixes |-> <<>>, base |-> ""]

Init ==
    /\ store = NewTripleStore
    /\ pc = "idle"
    /\ ruleIdx = 1
    /\ newInThisRound = 0
    /\ totalInferred = 0
    /\ call = [op |-> "NewReasoner"]
    /\ everAdded = {}
    /\ nCalls = 0
    /\ inferred = <<>>
    /\ program = [Facts |-> <<>>, Rules |-> <<>>]
    /\ loaded = {}
    /\ parser = NewTurtleParser

\* store.Add(t), called by the owner of the store
AddCall(t) ==
    /\ pc = "idle"
    /\ nCalls < MaxCalls
    /\ LET r == Add(store, t)
       IN  /\ store' = r.store
           /\ call' = [op |-> "Add", arg |-> t, ret |-> r.new,
                       first |-> t \notin everAdded, pre |-> store.tripleList]
    /\ everAdded' = everAdded \cup {t}
    /\ loaded' = loaded \cup {t}
    /\ nCalls' = nCalls + 1
    /\ UNCHANGED <<pc, ruleIdx, newInThisRound, totalInferred, inferred, program, parser>>

\* Reasoner.LoadTurtle(content), where r.parser.Parse(content) returns (triples, err)
LoadTurtle(triples, err) ==
    /\ pc = "idle"
    /\ nCalls < MaxCalls
    /\ IF err
       THEN UNCHANGED <<store, everAdded, loaded>>
       ELSE /\ store' = AddAll(store, triples, 0).store
            /\ everAdded' = everAdded \cup Range(triples)
            /\ loaded' = loaded \cup Range(triples)
    /\ nCalls' = nCalls + 1
    /\ call' = [op |-> "LoadTurtle", arg |-> triples, ret |-> err, pre |-> store.tripleList]
    /\ UNCHANGED <<pc, ruleIdx, newInThisRound, totalInferred, inferred, program, parser>>

\* RunForwardReasoning with totalInferred kept from the call before
RunForwardReasoningKeepsTotal ==
    /\ pc = "idle"
    /\ pc' = "rules"
    /\ newInThisRound' = 0
    /\ ruleIdx' = 1
    /\ call' = [op |-> "RunForwardReasoning", ret |-> -1, pre |-> store.tripleList,
                again |-> call.op = "RunForwardReasoning"]
    /\ UNCHANGED <<store, everAdded, nCalls, totalInferred, inferred, program, loaded, parser>>

\* RunForwardReasoning: entry, up to the first `for _, rule := range r.rules`
RunForwardReasoning ==
    /\ pc = "idle"
    /\ pc' = "rules"
    /\ totalInferred' = 0
    /\ newInThisRound' = 0
    /\ ruleIdx' = 1
    /\ call' = [op |-> "RunForwardReasoning", ret |-> -1, pre |-> store.tripleList,
                again |-> call.op = "RunForwardReasoning"]
    /\ UNCHANGED <<store, everAdded, nCalls, inferred, program, loaded, parser>>

\* one iteration of `for _, rule := range r.rules`: Apply, then Add each proposal
ApplyRule ==
    /\ pc = "rules"
    /\ ruleIdx <= NumRules
    /\ \E order \in RuleOrders(store, ruleIdx) :
         \E proposals \in {DefaultRules(store, ruleIdx, order)} :
           \E r \in {AddAll(store, proposals, newInThisRound)} :
             /\ store' = r.store
             /\ newInThisRound' = r.count
             /\ everAdded' = everAdded \cup Range(proposals)
    /\ ruleIdx' = ruleIdx + 1
    /\ UNCHANGED <<pc, totalInferred, call, nCalls, inferred, program, loaded, parser>>

\* EndRound that returns after the first round, productive or not
EndRoundSingleRound ==
    /\ pc = "rules"
    /\ ruleIdx = NumRules + 1
    /\ pc' = "idle"
    /\ call' = [call EXCEPT !.ret = totalInferred + newInThisRound]
    /\ UNCHANGED <<totalInferred, newInThisRound, ruleIdx, store, everAdded, nCalls, inferred, program, loaded, parser>>

\* EndRound with one running count: never reset, and copied to the total
EndRoundRunningCount ==
    /\ pc = "rules"
    /\ ruleIdx = NumRules + 1
    /\ IF newInThisRound = 0
       THEN /\ pc' = "idle"
            /\ call' = [call EXCEPT !.ret = totalInferred]
            /\ UNCHANGED <<totalInferred, newInThisRound, ruleIdx>>
       ELSE /\ totalInferred' = newInThisRound
            /\ ruleIdx' = 1
            /\ UNCHANGED <<pc, call, newInThisRound>>
    /\ UNCHANGED <<store, everAdded, nCalls, inferred, program, loaded, parser>>

\* the end of a round: `if newInThisRound == 0 { break }`, else the next round
EndRound ==
    /\ pc = "rules"
    /\ ruleIdx = NumRules + 1
    /\ IF newInThisRound = 0
       THEN /\ pc' = "idle"
            /\ call' = [call EXCEPT !.ret = totalInferred]
            /\ UNCHANGED <<totalInferred, newInThisRound, ruleIdx>>
       ELSE /\ totalInferred' = totalInferred + newInThisRound
            /\ newInThisRound' = 0
            /\ ruleIdx' = 1
            /\ UNCHANGED <<pc, call>>
    /\ UNCHANGED <<store, everAdded, nCalls, inferred, program, loaded, parser>>

Next ==
    \/ \E t \in InputTriples : AddCall(t)
    \/ \E triples \in Documents : LoadTurtle(triples, FALSE)
    \/ LoadTurtle(<<>>, TRUE)
    \/ RunForwardReasoning
    \/ ApplyRule
    \/ EndRound

Spec == Init /\ [][Next]_vars
-----------------------------------------------------------------------------
(* The rule loop with the return of rule.Apply as a step of its own: one    *)
(* iteration is RuleApply followed by InsertInferred.                       *)

\* RuleApply where the rule adds each proposal to the store itself
RuleApplyInserts ==
    /\ pc = "rules"
    /\ ruleIdx <= NumRules
    /\ \E order \in RuleOrders(store, ruleIdx) :
         \E proposals \in {DefaultRules(store, ruleIdx, order)} :
           /\ inferred' = proposals
           /\ store' = AddAll(store, proposals, 0).store
    /\ pc' = "insert"
    /\ UNCHANGED <<ruleIdx, newInThisRound, totalInferred, call, everAdded, nCalls, program, loaded, parser>>

\* `inferred := rule.Apply(r.store)`
RuleApply ==
    /\ pc = "rules"
    /\ ruleIdx <= NumRules
    /\ \E order \in RuleOrders(store, ruleIdx) : inferred' = DefaultRules(store, ruleIdx, order)
    /\ pc' = "insert"
    /\ UNCHANGED <<store, ruleIdx, newInThisRound, totalInferred, call, everAdded, nCalls, program, loaded, parser>>

\* `for _, t := range inferred { if r.store.Add(t) { newInThisRound++ } }`
InsertInferred ==
    /\ pc = "insert"
    /\ \E r \in {AddAll(store, inferred, newInThisRound)} :
         /\ store' = r.store
         /\ newInThisRound' = r.count
    /\ everAdded' = everAdded \cup Range(inferred)
    /\ inferred' = <<>>
    /\ ruleIdx' = ruleIdx + 1
    /\ pc' = "rules"
    /\ UNCHANGED <<totalInferred, call, nCalls, program, loaded, parser>>

StepNext ==
    \/ nCalls < MaxStepCalls /\ \E t \in InputTriples : AddCall(t)
    \/ nCalls < MaxStepCalls /\ \E triples \in Documents : LoadTurtle(triples, FALSE)
    \/ nCalls < MaxStepCalls /\ LoadTurtle(<<>>, TRUE)
    \/ RunForwardReasoning
    \/ RuleApply
    \/ InsertInferred
    \/ EndRound

StepSpec == Init /\ [][StepNext]_vars

-----------------------------------------------------------------------------
(* The read-only calls.  Each leaves the reasoner as it is; the history     *)
(* variable call records the arguments and the value returned.              *)

\* the terms the read-only calls are made with
ProbeSubjects == {B, C}
ProbePredicates == {A, RDFType}
ProbeObjects == {C, V}

Observe(op, arg, ret) ==
    /\ pc = "idle"
    /\ call' = [op |-> op, arg |-> arg, ret |-> ret]
    /\ UNCHANGED <<store, pc, ruleIdx, newInThisRound, totalInferred, everAdded, nCalls, inferred, program, loaded, parser>>

ContainsCall(t) == Observe("Contains", t, Contains(store, t))

FindBySubjectCall(s) == Observe("FindBySubject", <<s>>, FindBySubject(store, s))

FindByPredicateCall(p) == Observe("FindByPredicate", <<p>>, FindByPredicate(store, p))

FindByObjectCall(o) == Observe("FindByObject", <<o>>, FindByObject(store, o))

FindBySubjectPredicateCall(s, p) ==
    Observe("FindBySubjectPredicate", <<s, p>>, FindBySubjectPredicate(store, s, p))

FindByPredicateObjectCall(p, o) ==
    Observe("FindByPredicateObject", <<p, o>>, FindByPredicateObject(store, p, o))

QueryCall(s, p, o) == Observe("Query", <<s, p, o>>, Query(store, s, p, o))

\* a store filled by Add and LoadTurtle, and read
QueryNext ==
    \/ nCalls < MaxReadCalls /\ \E t \in InputTriples : AddCall(t)
    \/ nCalls < MaxReadCalls /\ \E triples \in Documents : LoadTurtle(triples, FALSE)
    \/ nCalls < MaxReadCalls /\ LoadTurtle(<<>>, TRUE)
    \/ \E t \in InputTriples : ContainsCall(t)
    \/ \E x \in ProbeSubjects : FindBySubjectCall(x)
    \/ \E x \in ProbePredicates : FindByPredicateCall(x)
    \/ \E x \in ProbeObjects : FindByObjectCall(x)
    \/ \E x \in ProbeSubjects, y \in ProbePredicates : FindBySubjectPredicateCall(x, y)
    \/ \E x \in ProbePredicates, y \in ProbeObjects : FindByPredicateObjectCall(x, y)
    \/ \E x \in ProbeSubjects \cup {""}, y \in ProbePredicates \cup {""}, z \in ProbeObjects \cup {""} :
         QueryCall(x, y, z)

QuerySpec == Init /\ [][QueryNext]_vars

-----------------------------------------------------------------------------
(* One rule applied to a store: rule.Apply(store), for each of the thirteen *)
(* rules and each store of a few triples of RuleTriples.                    *)

K == "ex:c|ex:d"

\* The triples the stores are made of: a range and a domain of ex:a, with a
\* class that is a literal and a class whose IRI holds the key separator;
\* uses of ex:a with a literal as object and as subject; types that are
\* already stored; a triple whose key is that of (ex:c rdf:type ex:c|ex:d);
\* and chains that close a cycle for each of the five transitive rules.
RuleTriples ==
    { Triple(A, RDFSRange, C), Triple(A, RDFSDomain, C),
      Triple(A, RDFSRange, V), Triple(A, RDFSRange, K),
      Triple(B, A, C), Triple(B, A, V), Triple(V, A, B), Triple(C, A, B),
      Triple(B, RDFType, C), Triple(C, RDFType, C),
      Triple(C \o "|" \o RDFType, C, "ex:d"),
      Triple(A, RDFType, OWLTransitiveProperty),
      Triple(A, RDFSSubClassOf, B), Triple(B, RDFSSubClassOf, A), Triple(B, RDFSSubClassOf, C),
      Triple(A, RDFSSubPropertyOf, B), Triple(B, RDFSSubPropertyOf, A),
      Triple(A, OWLEquivalentClass, B), Triple(B, OWLEquivalentClass, A),
      Triple(A, OWLSameAs, B), Triple(B, OWLSameAs, A) }

\* the sets of at most n triples of RuleTriples
RECURSIVE UpTo(_)
UpTo(n) ==
    IF n = 0 THEN {{}}
    ELSE LET smaller == UpTo(n - 1)
         IN  smaller \cup {S \cup {t} : S \in smaller, t \in RuleTriples}

\* the triples of S in some order
RECURSIVE SeqOf(_)
SeqOf(S) ==
    IF S = {} THEN <<>>
    ELSE LET x == CHOOSE x \in S : TRUE IN <<x>> \o SeqOf(S \ {x})

\* a new reasoner after one LoadTurtle of a document with the triples of S
RuleInit ==
    \E S \in UpTo(MaxRuleTriples) :
      /\ store = AddAll(NewTripleStore, SeqOf(S), 0).store
      /\ call = [op |-> "LoadTurtle", arg |-> SeqOf(S), ret |-> FALSE, pre |-> <<>>]
      /\ everAdded = S
      /\ nCalls = 1
      /\ pc = "idle"
      /\ ruleIdx = 1
      /\ newInThisRound = 0
      /\ totalInferred = 0
      /\ inferred = <<>>
      /\ program = [Facts |-> <<>>, Rules |-> <<>>]
      /\ loaded = S
      /\ parser = NewTurtleParser

\* DefaultRules()[i - 1].Apply(store)
ApplyCall(i) ==
    \E order \in RuleOrders(store, i) : Observe("Apply", i, DefaultRules(store, i, order))

RuleNext == \E i \in 1..NumRules : ApplyCall(i)

RuleSpec == RuleInit /\ [][RuleNext]_vars

-----------------------------------------------------------------------------
(* The package functions ForwardReason and ForwardReasonWithDetails.  Each  *)
(* makes a reasoner of its own, loads the TBox and then the ABox, runs      *)
(* RunForwardReasoning (the steps ApplyRule and EndRound) and, when that    *)
(* has returned, builds its result.                                         *)

AC == "ex:a|ex:c"

\* What Parse returns for the texts handed to the package functions: two
\* symmetric properties; two triples whose mirror images share a key; two
\* triples of which one prints as the mirror image of the other; a property
\* chain that ends in a literal; one triple for each of the two symmetric
\* properties; a class cycle with an instance.
ExportDocuments ==
    { << Triple(A, RDFType, OWLSymmetricProperty), Triple(AC, RDFType, OWLSymmetricProperty) >>,
      << Triple(K, A, B), Triple("ex:d", AC, B) >>,
      << Triple(B, A, "ex:m ex:n"), Triple("ex:m", "ex:n ex:a", B) >>,
      << Triple(B, A, C), Triple(C, A, V) >>,
      << Triple("ex:d", AC, B), Triple(B, A, C) >>,
      << Triple(A, RDFSSubClassOf, B), Triple(B, RDFSSubClassOf, C), Triple(C, RDFType, A),
         Triple(C, RDFSSubClassOf, A) >> }

\* a text, by what becomes of it: the empty string is not loaded, and a text
\* that Parse rejects gives an error and no triples
Contents ==
    { [empty |-> TRUE, err |-> FALSE, triples |-> <<>>],
      [empty |-> FALSE, err |-> TRUE, triples |-> <<>>] }
      \cup { [empty |-> FALSE, err |-> FALSE, triples |-> d] : d \in ExportDocuments }

\* `if text != "" { if err := reasoner.LoadTurtle(text); err != nil { return } }`
LoadIfGiven(ts, content) ==
    IF content.empty \/ content.err THEN ts ELSE AddAll(ts, content.triples, 0).store

\* a package function has been entered and has not returned
Pending == call.op \in {"ForwardReason", "ForwardReasonWithDetails"} /\ ~call.done

\* the part the two functions share, up to the loop of RunForwardReasoning
Enter(op, abox, tbox) ==
    /\ pc = "idle"
    /\ ~Pending
    /\ \E afterTBox \in {LoadIfGiven(NewTripleStore, tbox)} :
         \E afterABox \in {LoadIfGiven(afterTBox, abox)} :
           IF tbox.err \/ abox.err
           THEN /\ store' = IF tbox.err THEN NewTripleStore ELSE afterTBox
                /\ call' = [op |-> op, arg |-> <<abox, tbox>>, ret |-> -1, pre |-> <<>>,
                            done |-> TRUE, err |-> TRUE, out |-> <<>>]
                /\ everAdded' = IF tbox.err THEN {} ELSE Range(tbox.triples)
                /\ loaded' = IF tbox.err THEN {} ELSE Range(tbox.triples)
                /\ UNCHANGED pc
           ELSE /\ store' = afterABox
                /\ call' = [op |-> op, arg |-> <<abox, tbox>>, ret |-> -1,
                            pre |-> afterABox.tripleList, done |-> FALSE, err |-> FALSE,
                            out |-> <<>>,
                            originalCount |-> Size(afterABox),
                            originalTriples |-> GetAllTriples(afterABox)]
                /\ everAdded' = Range(tbox.triples) \cup Range(abox.triples)
                /\ loaded' = Range(tbox.triples) \cup Range(abox.triples)
                /\ pc' = "rules"
    /\ ruleIdx' = 1
    /\ newInThisRound' = 0
    /\ totalInferred' = 0
    /\ nCalls' = 0
    /\ UNCHANGED <<inferred, program, parser>>

ForwardReason(abox, tbox) == Enter("ForwardReason", abox, tbox)

\* `return reasoner.GetAllTriples(), nil`
ForwardReasonReturn ==
    /\ pc = "idle"
    /\ call.op = "ForwardReason"
    /\ ~call.done
    /\ call' = [call EXCEPT !.done = TRUE, !.out = GetAllTriples(store)]
    /\ UNCHANGED <<store, pc, ruleIdx, newInThisRound, totalInferred, everAdded, nCalls,
                   inferred, program, loaded, parser>>

ForwardReasonWithDetails(abox, tbox) == Enter("ForwardReasonWithDetails", abox, tbox)

\* the record ForwardReasonWithDetails builds from its locals
ReasoningResult(originalCount, originalTriples, inferredCount, allTriples) ==
    [OriginalTriples |-> originalTriples,
     InferredTriples |-> SelectSeq(allTriples, LAMBDA t : t \notin Range(originalTriples)),
     AllTriples |-> allTriples,
     OriginalCount |-> originalCount,
     InferredCount |-> inferredCount,
     TotalCount |-> Len(allTriples)]

\* from `allTriples := reasoner.GetAllTriples()` to the return
ForwardReasonWithDetailsReturn ==
    /\ pc = "idle"
    /\ call.op = "ForwardReasonWithDetails"
    /\ ~call.done
    /\ call' = [call EXCEPT !.done = TRUE,
                            !.out = ReasoningResult(call.originalCount, call.originalTriples,
                                                    call.ret, GetAllTriples(store))]
    /\ UNCHANGED <<store, pc, ruleIdx, newInThisRound, totalInferred, everAdded, nCalls,
                   inferred, program, loaded, parser>>

ExportNext ==
    \/ \E abox, tbox \in Contents : ForwardReason(abox, tbox)
    \/ ForwardReasonReturn
    \/ \E abox, tbox \in Contents : ForwardReasonWithDetails(abox, tbox)
    \/ ForwardReasonWithDetailsReturn
    \/ ApplyRule
    \/ EndRound

ExportSpec == Init /\ [][ExportNext]_vars

\* The reasoner with a loop that runs on: RunForwardReasoning is one Go call,
\* so once entered its rule applications and round ends are taken.
FairNext ==
    \/ nCalls < MaxFairCalls /\ \E t \in InputTriples : AddCall(t)
    \/ nCalls < MaxFairCalls /\ \E triples \in Documents : LoadTurtle(triples, FALSE)
    \/ nCalls < MaxFairCalls /\ LoadTurtle(<<>>, TRUE)
    \/ RunForwardReasoning
    \/ ApplyRule
    \/ EndRound

FairSpec == Init /\ [][FairNext]_vars /\ WF_vars(ApplyRule) /\ WF_vars(EndRound)

-----------------------------------------------------------------------------
(* The Datalog evaluator: atoms, programs, Reason and EvaluateQuery         *)

MaxStatements == 4

UpperLetters == {SubSeq("ABCDEFGHIJKLMNOPQRSTUVWXYZ", i, i) : i \in 1..26}
LowerLetters == {SubSeq("abcdefghijklmnopqrstuvwxyz", i, i) : i \in 1..26}
Digits == {SubSeq("0123456789", i, i) : i \in 1..10}

\* isVariable with only its first test: one upper-case letter
isVariableOneLetter(s) == Len(s) = 1 /\ s \in UpperLetters

\* isVariable: one upper-case letter, anything that starts with "?", or
\* upper-case letters, digits and underscores with at least one letter
isVariable(s) ==
    IF Len(s) = 0 THEN FALSE
    ELSE IF Len(s) = 1 /\ s \in UpperLetters THEN TRUE
    ELSE IF HasPrefix(s, "?") THEN TRUE
    ELSE /\ \E i \in 1..Len(s) : SubSeq(s, i, i) \in UpperLetters \cup LowerLetters
         /\ \A i \in 1..Len(s) : SubSeq(s, i, i) \in UpperLetters \cup Digits \cup {"_"}

\* the loop of parseAtom over the trimmed, non-empty parts between the commas
DLAtom(predicate, values) ==
    [Predicate |-> predicate,
     Terms |-> [i \in 1..Len(values) |-> [Value |-> values[i], IsVariable |-> isVariable(values[i])]]]

DLRule(head, body) == [Head |-> head, Body |-> body]

\* strings.Join(terms, ", ")
RECURSIVE JoinValues(_)
JoinValues(terms) ==
    IF terms = <<>> THEN ""
    ELSE IF Len(terms) = 1 THEN terms[1].Value
    ELSE terms[1].Value \o ", " \o JoinValues(Tail(terms))

\* DLAtom.String
AtomString(a) == a.Predicate \o "(" \o JoinValues(a.Terms) \o ")"

hasVariables(a) == \E i \in 1..Len(a.Terms) : a.Terms[i].IsVariable

\* addFact that reports every atom as new
addFactAlwaysNew(factList, f) ==
    IF \E i \in 1..Len(factList) : AtomString(factList[i]) = AtomString(f)
    THEN [list |-> factList, added |-> TRUE]
    ELSE [list |-> Append(factList, f), added |-> TRUE]

\* the closure addFact of Reason: [list, added]
addFact(factList, f) ==
    IF \E i \in 1..Len(factList) : AtomString(factList[i]) = AtomString(f)
    THEN [list |-> factList, added |-> FALSE]
    ELSE [list |-> Append(factList, f), added |-> TRUE]

\* the loop over first.Terms in findSubstitutions, from term i on: the
\* substitution grown by the match, or the value "no match"
RECURSIVE MatchTerms(_, _, _, _)
MatchTerms(first, f, i, newSub) ==
    IF i > Len(first.Terms) THEN [match |-> TRUE, sub |-> newSub]
    ELSE LET t == first.Terms[i]
             factTerm == f.Terms[i].Value
         IN  IF t.IsVariable
             THEN IF t.Value \in DOMAIN newSub
                  THEN IF newSub[t.Value] # factTerm
                       THEN [match |-> FALSE, sub |-> newSub]
                       ELSE MatchTerms(first, f, i + 1, newSub)
                  ELSE MatchTerms(first, f, i + 1, newSub @@ (t.Value :> factTerm))
             ELSE IF t.Value # factTerm
                  THEN [match |-> FALSE, sub |-> newSub]
                  ELSE MatchTerms(first, f, i + 1, newSub)

\* findSubstitutions, with the loop over the facts from fact k on
RECURSIVE findSubstitutionsFrom(_, _, _, _)
findSubstitutionsFrom(body, facts, currentSub, k) ==
    IF body = <<>> THEN <<currentSub>>
    ELSE IF k > Len(facts) THEN <<>>
    ELSE LET first == body[1]
             rest == Tail(body)
             f == facts[k]
             later == findSubstitutionsFrom(body, facts, currentSub, k + 1)
         IN  IF f.Predicate # first.Predicate \/ Len(f.Terms) # Len(first.Terms)
             THEN later
             ELSE LET m == MatchTerms(first, f, 1, currentSub)
                  IN  IF m.match
                      THEN findSubstitutionsFrom(rest, facts, m.sub, 1) \o later
                      ELSE later

findSubstitutions(body, facts, currentSub) == findSubstitutionsFrom(body, facts, currentSub, 1)

applySubstitution(a, sub) ==
    [Predicate |-> a.Predicate,
     Terms |-> [i \in 1..Len(a.Terms) |->
                  IF a.Terms[i].IsVariable /\ a.Terms[i].Value \in DOMAIN sub
                  THEN [Value |-> sub[a.Terms[i].Value], IsVariable |-> FALSE]
                  ELSE a.Terms[i]]]

\* the loop over p.Facts with the test of hasVariables left out
RECURSIVE GroundFactsKeepsAll(_, _)
GroundFactsKeepsAll(facts, factList) ==
    IF facts = <<>> THEN factList
    ELSE GroundFactsKeepsAll(Tail(facts), addFact(factList, facts[1]).list)

\* `for _, f := range p.Facts { if !hasVariables(f) { addFact(f) } }`
RECURSIVE GroundFacts(_, _)
GroundFacts(facts, factList) ==
    IF facts = <<>> THEN factList
    ELSE GroundFacts(Tail(facts),
                     IF hasVariables(facts[1]) THEN factList
                     ELSE addFact(factList, facts[1]).list)

\* `for _, sub := range substitutions`: [list, count]
RECURSIVE AddHeads(_, _, _, _)
AddHeads(head, substitutions, factList, newFactsCount) ==
    IF substitutions = <<>> THEN [list |-> factList, count |-> newFactsCount]
    ELSE LET h == applySubstitution(head, substitutions[1])
         IN  CHOOSE out \in {AddHeads(head, Tail(substitutions), r.list,
                                      IF r.added THEN newFactsCount + 1 ELSE newFactsCount) :
                               r \in {IF hasVariables(h)
                                      THEN [list |-> factList, added |-> FALSE]
                                      ELSE addFact(factList, h)}} : TRUE

\* `for _, rule := range p.Rules`: [list, count]
RECURSIVE ReasonRound(_, _, _)
ReasonRound(rules, factList, newFactsCount) ==
    IF rules = <<>> THEN [list |-> factList, count |-> newFactsCount]
    ELSE CHOOSE out \in {ReasonRound(Tail(rules), r.list, r.count) :
                           r \in {AddHeads(rules[1].Head, substitutions, factList,
                                           newFactsCount) :
                                    substitutions \in {findSubstitutions(rules[1].Body,
                                                                         factList, <<>>)}}} :
           TRUE

\* the loop `for { ... if newFactsCount == 0 { break } }`
RECURSIVE ReasonLoop(_, _)
ReasonLoop(rules, factList) ==
    LET r == ReasonRound(rules, factList, 0)
    IN  IF r.count = 0 THEN r.list ELSE ReasonLoop(rules, r.list)

\* Reason with its loop left after one round
ReasonOneRound(p) == ReasonRound(p.Rules, GroundFacts(p.Facts, <<>>), 0).list

\* DatalogProgram.Reason
Reason(p) == ReasonLoop(p.Rules, GroundFacts(p.Facts, <<>>))

\* EvaluateQuery with the test of the number of terms left out
EvaluateQueryAnyArity(query, derivedFacts) ==
    \E k \in 1..Len(derivedFacts) :
      LET f == derivedFacts[k]
      IN  /\ f.Predicate = query.Predicate
          /\ \A i \in 1..Len(query.Terms) :
               i <= Len(f.Terms) =>
                 (query.Terms[i].IsVariable \/ query.Terms[i].Value = f.Terms[i].Value)

\* DatalogProgram.EvaluateQuery
EvaluateQuery(query, derivedFacts) ==
    \E k \in 1..Len(derivedFacts) :
      LET f == derivedFacts[k]
      IN  /\ f.Predicate = query.Predicate
          /\ Len(f.Terms) = Len(query.Terms)
          /\ \A i \in 1..Len(query.Terms) :
               query.Terms[i].IsVariable \/ query.Terms[i].Value = f.Terms[i].Value

\* the facts a text may state: two edges, a loop, a unary fact, and an atom
\* with a variable
FactStatements ==
    { DLAtom("e", <<"a", "b">>), DLAtom("e", <<"b", "c">>), DLAtom("e", <<"c", "c">>),
      DLAtom("q", <<"a">>), DLAtom("e", <<"X", "a">>) }

\* the rules a text may state: a join, a projection, a variable twice in the
\* head, a variable twice in the body, a head variable the body does not
\* bind, and constants in body and head
RuleStatements ==
    { DLRule(DLAtom("e", <<"X", "Z">>), <<DLAtom("e", <<"X", "Y">>), DLAtom("e", <<"Y", "Z">>)>>),
      DLRule(DLAtom("q", <<"Y">>), <<DLAtom("e", <<"X", "Y">>)>>),
      DLRule(DLAtom("e", <<"X", "X">>), <<DLAtom("q", <<"X">>)>>),
      DLRule(DLAtom("q", <<"X">>), <<DLAtom("e", <<"X", "X">>)>>),
      DLRule(DLAtom("p", <<"X", "Y">>), <<DLAtom("q", <<"X">>)>>),
      DLRule(DLAtom("q", <<"b">>), <<DLAtom("e", <<"a", "?x">>)>>) }

\* the queries put to the derived facts
Queries ==
    { DLAtom("e", <<"a", "c">>), DLAtom("e", <<"X", "c">>), DLAtom("e", <<"X", "X">>),
      DLAtom("q", <<"b">>), DLAtom("e", <<"a">>), DLAtom("r", <<"a">>),
      DLAtom("p", <<"a", "Y">>) }

\* `program := &DatalogProgram{}`
DatalogInit ==
    /\ store = NewTripleStore
    /\ pc = "idle"
    /\ ruleIdx = 1
    /\ newInThisRound = 0
    /\ totalInferred = 0
    /\ call = [op |-> "ParseDatalog"]
    /\ everAdded = {}
    /\ nCalls = 0
    /\ inferred = <<>>
    /\ program = [Facts |-> <<>>, Rules |-> <<>>]
    /\ loaded = {}
    /\ parser = NewTurtleParser

\* one turn of the loop of ParseDatalog over a statement without ":-"
ParseFact(atom) ==
    /\ call.op = "ParseDatalog"
    /\ Len(program.Facts) + Len(program.Rules) < MaxStatements
    /\ program' = [program EXCEPT !.Facts = Append(@, atom)]
    /\ UNCHANGED <<store, pc, ruleIdx, newInThisRound, totalInferred, call, everAdded, nCalls,
                   inferred, loaded, parser>>

\* one turn of the loop of ParseDatalog over a statement with ":-"
ParseRule(rule) ==
    /\ call.op = "ParseDatalog"
    /\ Len(program.Facts) + Len(program.Rules) < MaxStatements
    /\ program' = [program EXCEPT !.Rules = Append(@, rule)]
    /\ UNCHANGED <<store, pc, ruleIdx, newInThisRound, totalInferred, call, everAdded, nCalls,
                   inferred, loaded, parser>>

\* `derivedFacts := program.Reason()`
ReasonCall ==
    /\ call.op = "ParseDatalog"
    /\ call' = [op |-> "Reason", ret |-> Reason(program)]
    /\ UNCHANGED <<store, pc, ruleIdx, newInThisRound, totalInferred, everAdded, nCalls,
                   inferred, program, loaded, parser>>

\* `program.EvaluateQuery(query, derivedFacts)`
EvaluateQueryCall(query) ==
    /\ call.op = "Reason"
    /\ call' = [op |-> "EvaluateQuery", arg |-> query, facts |-> call.ret,
                ret |-> EvaluateQuery(query, call.ret)]
    /\ UNCHANGED <<store, pc, ruleIdx, newInThisRound, totalInferred, everAdded, nCalls,
                   inferred, program, loaded, parser>>

DatalogNext ==
    \/ \E atom \in FactStatements : ParseFact(atom)
    \/ \E rule \in RuleStatements : ParseRule(rule)
    \/ ReasonCall
    \/ \E query \in Queries : EvaluateQueryCall(query)

DatalogSpec == DatalogInit /\ [][DatalogNext]_vars

-----------------------------------------------------------------------------
(* Reason step by step: the entry with its loop over p.Facts, and one step *)
(* for each turn of the loop `for { ... }`.  Reason is one Go call, so     *)
(* once entered its turns are taken.                                       *)

MaxReasonStatements == 3

\* Reason, up to the loop `for {`
ReasonEnter ==
    /\ call.op = "ParseDatalog"
    /\ call' = [op |-> "Reason", factList |-> GroundFacts(program.Facts, <<>>),
                done |-> FALSE, ret |-> <<>>]
    /\ UNCHANGED <<store, pc, ruleIdx, newInThisRound, totalInferred, everAdded, nCalls,
                   inferred, program, loaded, parser>>

\* one turn of `for {`: all rules, then `if newFactsCount == 0 { break }`
\* and `return factList`
ReasonStep ==
    /\ call.op = "Reason"
    /\ ~call.done
    /\ \E r \in {ReasonRound(program.Rules, call.factList, 0)} :
         call' = IF r.count = 0
                 THEN [call EXCEPT !.done = TRUE, !.ret = r.list]
                 ELSE [call EXCEPT !.factList = r.list]
    /\ UNCHANGED <<store, pc, ruleIdx, newInThisRound, totalInferred, everAdded, nCalls,
                   inferred, program, loaded, parser>>

ReasonNext ==
    \/ /\ Len(program.Facts) + Len(program.Rules) < MaxReasonStatements
       /\ \E atom \in FactStatements : ParseFact(atom)
    \/ /\ Len(program.Facts) + Len(program.Rules) < MaxReasonStatements
       /\ \E rule \in RuleStatements : ParseRule(rule)
    \/ ReasonEnter
    \/ ReasonStep

ReasonSpec == DatalogInit /\ [][ReasonNext]_vars

ReasonFairSpec == ReasonSpec /\ WF_vars(ReasonStep)

-----------------------------------------------------------------------------
(* The Datalog parser on text: splitDatalogStatements, parseRule, parseAtom *)
(* and ParseDatalog.  A text is a string; "\n" ends a line.                 *)

\* the character at position i (from 1), as a string of length 1
At(s, i) == SubSeq(s, i, i)

\* unicode.IsSpace on the characters of the texts
IsSpace(c) == c \in {" ", "\n", "\t", "\r"}

\* the least and the greatest number of a finite set of numbers that is not
\* empty
Min(S) == CHOOSE n \in S : \A m \in S : n <= m
Max(S) == CHOOSE n \in S : \A m \in S : n >= m

\* the positions of s at which sub begins
Occurrences(s, sub) ==
    {i \in 1..(Len(s) - Len(sub) + 1) : SubSeq(s, i, i + Len(sub) - 1) = sub}

\* strings.Index, counted from 1, and 0 where Go gives -1
Index(s, sub) == IF Occurrences(s, sub) = {} THEN 0 ELSE Min(Occurrences(s, sub))

\* strings.LastIndex, counted from 1, and 0 where Go gives -1
LastIndex(s, sub) == IF Occurrences(s, sub) = {} THEN 0 ELSE Max(Occurrences(s, sub))

\* strings.TrimSpace: from the first to the last character that is no space
TrimSpace(s) ==
    LET solid == {i \in 1..Len(s) : ~IsSpace(At(s, i))}
    IN  IF solid = {} THEN "" ELSE SubSeq(s, Min(solid), Max(solid))

\* strings.TrimSuffix
TrimSuffix(s, suffix) ==
    IF Len(s) >= Len(suffix) /\ SubSeq(s, Len(s) - Len(suffix) + 1, Len(s)) = suffix
    THEN SubSeq(s, 1, Len(s) - Len(suffix))
    ELSE s

\* strings.Split with a separator that is not empty
RECURSIVE Split(_, _)
Split(s, sep) ==
    LET i == Index(s, sep)
    IN  IF i = 0 THEN <<s>>
        ELSE <<SubSeq(s, 1, i - 1)>> \o Split(SubSeq(s, i + Len(sep), Len(s)), sep)

\* a result that is an error
Failure == [err |-> TRUE]

\* parseAtom
parseAtom(text) ==
    LET s == TrimSuffix(TrimSpace(text), ".")
        openParen == Index(s, "(")
        closeParen == LastIndex(s, ")")
    IN  IF openParen = 0 THEN [err |-> FALSE, atom |-> DLAtom(s, <<>>)]
        ELSE IF closeParen = 0 \/ closeParen < openParen THEN Failure
        ELSE LET predicate == TrimSpace(SubSeq(s, 1, openParen - 1))
                 termParts == Split(SubSeq(s, openParen + 1, closeParen - 1), ",")
                 trimmed == [i \in 1..Len(termParts) |-> TrimSpace(termParts[i])]
             IN  [err |-> FALSE,
                  atom |-> DLAtom(predicate, SelectSeq(trimmed, LAMBDA tp : tp # ""))]

\* parenCount after the character at position i, when it was start before
\* the first character
Depth(s, i, start) ==
    start + Cardinality({j \in 1..i : At(s, j) = "("}) - Cardinality({j \in 1..i : At(s, j) = ")"})

\* the pieces of s between the positions of cuts, the characters at the
\* cuts left out; the last piece is the rest of s
RECURSIVE Pieces(_, _, _)
Pieces(s, from, cuts) ==
    IF cuts = {} THEN <<SubSeq(s, from, Len(s))>>
    ELSE LET c == Min(cuts)
         IN  <<SubSeq(s, from, c - 1)>> \o Pieces(s, c + 1, cuts \ {c})

\* splitAtoms: a comma at paren-depth zero ends an atom; what is left at the
\* end is an atom if it is not empty
splitAtoms(s) ==
    LET pieces == Pieces(s, 1, {i \in 1..Len(s) : At(s, i) = "," /\ Depth(s, i, 0) = 0})
    IN  IF pieces[Len(pieces)] = "" THEN SubSeq(pieces, 1, Len(pieces) - 1) ELSE pieces

\* parseRule
parseRule(line) ==
    LET parts == Split(line, ":-")
    IN  IF Len(parts) # 2 THEN Failure
        ELSE LET head == parseAtom(TrimSuffix(TrimSpace(parts[1]), "."))
                 bodyParts == splitAtoms(TrimSuffix(TrimSpace(parts[2]), "."))
                 body == [i \in 1..Len(bodyParts) |-> parseAtom(TrimSpace(bodyParts[i]))]
             IN  IF head.err \/ \E i \in 1..Len(body) : body[i].err THEN Failure
                 ELSE [err |-> FALSE,
                       rule |-> DLRule(head.atom, [i \in 1..Len(body) |-> body[i].atom])]

\* the comments of a line removed: from the first "%", then from the first "//"
StripComments(line) ==
    LET percent == Index(line, "%")
        first == IF percent # 0 THEN SubSeq(line, 1, percent - 1) ELSE line
        slashes == Index(first, "//")
    IN  IF slashes # 0 THEN SubSeq(first, 1, slashes - 1) ELSE first

\* the look-ahead of splitDatalogStatements from position j of the line:
\* is the first character that is no space the start of ":-"
IsFollowedByRule(runes, j) ==
    LET solid == {k \in j..Len(runes) : ~IsSpace(At(runes, k))}
    IN  /\ solid # {}
        /\ Min(solid) + 1 <= Len(runes)
        /\ At(runes, Min(solid)) = ":"
        /\ At(runes, Min(solid) + 1) = "-"

\* the loop over the characters of one line; the state of the scan is
\* [parenCount, current, statements].  A period splits where parenCount is
\* zero and no ":-" follows on the line; the characters before the first
\* split go on from current, the ones after the last split are the new
\* current
ScanLine(runes, st) ==
    LET cuts == {i \in 1..Len(runes) :
                   /\ At(runes, i) = "."
                   /\ Depth(runes, i, st.parenCount) = 0
                   /\ ~IsFollowedByRule(runes, i + 1)}
        pieces == Pieces(runes, 1, cuts)
    IN  [parenCount |-> Depth(runes, Len(runes), st.parenCount),
         current |-> IF cuts = {} THEN st.current \o runes ELSE pieces[Len(pieces)],
         statements |->
             IF cuts = {} THEN st.statements
             ELSE st.statements \o <<st.current \o pieces[1]>>
                    \o SubSeq(pieces, 2, Len(pieces) - 1)]

\* the loop over the lines
RECURSIVE ScanLines(_, _)
ScanLines(lines, st) ==
    IF lines = <<>> THEN st
    ELSE LET line == TrimSpace(StripComments(lines[1]))
         IN  IF line = "" THEN ScanLines(Tail(lines), st)
             ELSE LET after == ScanLine(line, st)
                  IN  ScanLines(Tail(lines), [after EXCEPT !.current = @ \o " "])

\* splitDatalogStatements
splitDatalogStatements(input) ==
    LET st == ScanLines(Split(input, "\n"),
                        [parenCount |-> 0, current |-> "", statements |-> <<>>])
    IN  IF TrimSpace(st.current) # "" THEN Append(st.statements, st.current)
        ELSE st.statements

\* the loop of ParseDatalog over the statements: [err, program]
RECURSIVE ParseStatements(_, _)
ParseStatements(statements, prog) ==
    IF statements = <<>> THEN [err |-> FALSE, program |-> prog]
    ELSE LET stmt == TrimSpace(statements[1])
         IN  IF stmt = "" THEN ParseStatements(Tail(statements), prog)
             ELSE IF Index(stmt, ":-") # 0
             THEN LET r == parseRule(stmt)
                  IN  IF r.err THEN Failure
                      ELSE ParseStatements(Tail(statements),
                                           [prog EXCEPT !.Rules = Append(@, r.rule)])
             ELSE LET a == parseAtom(stmt)
                  IN  IF a.err THEN Failure
                      ELSE ParseStatements(Tail(statements),
                                           [prog EXCEPT !.Facts = Append(@, a.atom)])

\* ParseDatalog
ParseDatalog(input) ==
    ParseStatements(splitDatalogStatements(input), [Facts |-> <<>>, Rules |-> <<>>])

MaxItems == 3

\* facts as they are written, without the period, and as they are meant
WrittenFacts ==
    { [text |-> "p(a)", atom |-> DLAtom("p", <<"a">>)],
      [text |-> "r(b.c, X)", atom |-> DLAtom("r", <<"b.c", "X">>)],
      [text |-> "s", atom |-> DLAtom("s", <<>>)] }

\* a rule as it is written, head and body apart, and as it is meant
WrittenRules ==
    { [head |-> "q(X)", body |-> "p(X), r(X, Y)",
       rule |-> DLRule(DLAtom("q", <<"X">>),
                       <<DLAtom("p", <<"X">>), DLAtom("r", <<"X", "Y">>)>>)] }

\* what may stand between the head of a rule and ":-": a space, a period
\* and a space, a line break, a period and a line break
Joints == {" ", ". ", "\n", ".\n"}

\* comments, each up to the end of its line, with a period in them
WrittenComments == {"% c. d\n", "// e(f). g\n"}

\* what may follow the period of a statement
Gaps == {" ", "\n"}

\* a text under the pen, with the program it is meant to state
DatalogTextInit ==
    /\ store = NewTripleStore
    /\ pc = "idle"
    /\ ruleIdx = 1
    /\ newInThisRound = 0
    /\ totalInferred = 0
    /\ call = [op |-> "Write", text |-> "", want |-> [Facts |-> <<>>, Rules |-> <<>>],
               items |-> 0, joints |-> {}]
    /\ everAdded = {}
    /\ nCalls = 0
    /\ inferred = <<>>
    /\ program = [Facts |-> <<>>, Rules |-> <<>>]
    /\ loaded = {}
    /\ parser = NewTurtleParser

WriteFact(f, gap) ==
    /\ call.op = "Write"
    /\ call.items < MaxItems
    /\ call' = [call EXCEPT !.text = @ \o f.text \o "." \o gap,
                            !.want.Facts = Append(@, f.atom),
                            !.items = @ + 1]
    /\ UNCHANGED <<store, pc, ruleIdx, newInThisRound, totalInferred, everAdded, nCalls,
                   inferred, program, loaded, parser>>

WriteRule(r, joint, gap) ==
    /\ call.op = "Write"
    /\ call.items < MaxItems
    /\ call' = [call EXCEPT !.text = @ \o r.head \o joint \o ":- " \o r.body \o "." \o gap,
                            !.want.Rules = Append(@, r.rule),
                            !.items = @ + 1,
                            !.joints = @ \cup {joint}]
    /\ UNCHANGED <<store, pc, ruleIdx, newInThisRound, totalInferred, everAdded, nCalls,
                   inferred, program, loaded, parser>>

WriteComment(c) ==
    /\ call.op = "Write"
    /\ call.items < MaxItems
    /\ call' = [call EXCEPT !.text = @ \o c, !.items = @ + 1]
    /\ UNCHANGED <<store, pc, ruleIdx, newInThisRound, totalInferred, everAdded, nCalls,
                   inferred, program, loaded, parser>>

\* ParseDatalog(input) on the text written
ParseDatalogCall ==
    /\ call.op = "Write"
    /\ \E r \in {ParseDatalog(call.text)} :
         /\ call' = [op |-> "ParseDatalog", arg |-> call.text, want |-> call.want,
                     joints |-> call.joints, ret |-> r]
         /\ program' = IF r.err THEN program ELSE r.program
    /\ UNCHANGED <<store, pc, ruleIdx, newInThisRound, totalInferred, everAdded, nCalls,
                   inferred, loaded, parser>>

DatalogTextNext ==
    \/ \E f \in WrittenFacts, gap \in Gaps : WriteFact(f, gap)
    \/ \E r \in WrittenRules, joint \in Joints, gap \in Gaps : WriteRule(r, joint, gap)
    \/ \E c \in WrittenComments : WriteComment(c)
    \/ ParseDatalogCall

DatalogTextSpec == DatalogTextInit /\ [][DatalogTextNext]_vars

-----------------------------------------------------------------------------
(* The Turtle parser on text: TurtleParser.Parse and the functions it      *)
(* calls.  A position is counted from 1, so that p.pos >= len(p.input) is  *)
(* pos > Len(input).  The texts are ASCII and carry no byte order mark.    *)

\* a loop `for p.pos < len(p.input) && !test(p.input[p.pos]) { p.pos++ }`:
\* the first position from pos on whose character passes the test, or the
\* position after the end
FirstFrom(input, pos, Test(_)) ==
    CHOOSE q \in pos..(Len(input) + 1) :
      /\ q = Len(input) + 1 \/ Test(At(input, q))
      /\ \A r \in pos..(q - 1) : ~Test(At(input, r))

\* `x := v` followed by Body(x): v is computed once, whatever the number of
\* uses of x
Bind(v, Body(_)) == CHOOSE out \in {Body(x) : x \in {v}} : TRUE

\* strings.ReplaceAll
RECURSIVE ReplaceAll(_, _, _)
ReplaceAll(s, old, new) ==
    LET i == Index(s, old)
    IN  IF i = 0 THEN s
        ELSE SubSeq(s, 1, i - 1) \o new \o ReplaceAll(SubSeq(s, i + Len(old), Len(s)), old, new)

\* the upper-case letter of a lower-case letter, and every other character
\* as it is
ToUpper(c) ==
    LET i == Index("abcdefghijklmnopqrstuvwxyz", c)
    IN  IF c = "" \/ i = 0 THEN c ELSE SubSeq("ABCDEFGHIJKLMNOPQRSTUVWXYZ", i, i)

\* strings.EqualFold
EqualFold(s, t) ==
    /\ Len(s) = Len(t)
    /\ \A i \in 1..Len(s) : ToUpper(At(s, i)) = ToUpper(At(t, i))

isNameChar(c) == c \in UpperLetters \cup LowerLetters \cup Digits \cup {"_", "-", "."}

isAlphaNum(c) == c \in UpperLetters \cup LowerLetters \cup Digits

\* skipWhitespaceAndComments: the position it leaves
RECURSIVE skipWhitespaceAndComments(_, _)
skipWhitespaceAndComments(input, pos) ==
    Bind(FirstFrom(input, pos, LAMBDA ch : ch \notin {" ", "\t", "\n", "\r"}),
         LAMBDA q :
           IF q <= Len(input) /\ At(input, q) = "#"
           THEN skipWhitespaceAndComments(input, FirstFrom(input, q, LAMBDA ch : ch = "\n"))
           ELSE q)

lookingAt(input, pos, s) ==
    /\ pos - 1 + Len(s) <= Len(input)
    /\ SubSeq(input, pos, pos - 1 + Len(s)) = s

lookingAtCaseInsensitive(input, pos, s) ==
    /\ pos - 1 + Len(s) <= Len(input)
    /\ EqualFold(SubSeq(input, pos, pos - 1 + Len(s)), s)

\* what a function that reads a term returns: the term and the position
\* after it, or an error and the position at which the function stopped;
\* ignored holds the errors that a caller has dropped
Term(value, pos) == [err |-> FALSE, msg |-> "", value |-> value, pos |-> pos, ignored |-> {}]

Error(msg, pos) == [err |-> TRUE, msg |-> msg, value |-> "", pos |-> pos, ignored |-> {}]

\* parsePrefixName
parsePrefixName(input, pos) ==
    Bind(FirstFrom(input, pos, LAMBDA ch : ch = ":" \/ IsSpace(ch)),
         LAMBDA q :
           IF q <= Len(input) /\ At(input, q) = ":"
           THEN Term(SubSeq(input, pos, q), q + 1)
           ELSE Term(SubSeq(input, pos, q - 1), q))

\* parseIRI
parseIRI(input, pos) ==
    Bind(skipWhitespaceAndComments(input, pos),
         LAMBDA lt :
           IF lt > Len(input) \/ At(input, lt) # "<" THEN Error("expected '<'", lt)
           ELSE Bind(FirstFrom(input, lt + 1, LAMBDA ch : ch = ">"),
                     LAMBDA gt :
                       IF gt > Len(input) THEN Error("unterminated IRI", gt)
                       ELSE Term(SubSeq(input, lt + 1, gt - 1), gt + 1)))

\* resolveIRI
resolveIRI(p, iri) ==
    IF p.base # "" /\ Index(iri, "://") = 0 /\ ~HasPrefix(iri, "#")
    THEN p.base \o iri
    ELSE iri

\* what parsePrefix and parseBase return: the error, the parser with its
\* new declaration, and the position
Declared(p, pos) == [err |-> FALSE, msg |-> "", parser |-> p, pos |-> pos]

\* the optional '.' after a declaration
SkipDot(input, pos) ==
    Bind(skipWhitespaceAndComments(input, pos),
         LAMBDA q : IF q <= Len(input) /\ At(input, q) = "." THEN q + 1 ELSE q)

\* parsePrefix
parsePrefix(input, p, pos) ==
    Bind(parsePrefixName(input,
                         skipWhitespaceAndComments(
                           input, IF lookingAt(input, pos, "@prefix") THEN pos + 7 ELSE pos + 6)),
         LAMBDA prefixName :
           IF prefixName.value = ""
           THEN [err |-> TRUE, msg |-> "expected prefix name", parser |-> p,
                 pos |-> prefixName.pos]
           ELSE Bind(parseIRI(input, skipWhitespaceAndComments(input, prefixName.pos)),
                     LAMBDA iri :
                       IF iri.err
                       THEN [err |-> TRUE, msg |-> iri.msg, parser |-> p, pos |-> iri.pos]
                       ELSE Declared([p EXCEPT !.prefixes =
                                              (TrimSuffix(prefixName.value, ":") :> iri.value)
                                                @@ @],
                                     SkipDot(input, iri.pos))))

\* parseBase
parseBase(input, p, pos) ==
    Bind(parseIRI(input,
                  skipWhitespaceAndComments(
                    input, IF lookingAt(input, pos, "@base") THEN pos + 5 ELSE pos + 4)),
         LAMBDA iri :
           IF iri.err
           THEN [err |-> TRUE, msg |-> iri.msg, parser |-> p, pos |-> iri.pos]
           ELSE Declared([p EXCEPT !.base = iri.value], SkipDot(input, iri.pos)))

\* parseBlankNode
parseBlankNode(input, pos) ==
    Bind(FirstFrom(input, pos + 2, LAMBDA ch : ~isNameChar(ch)),
         LAMBDA end : Term(SubSeq(input, pos, end - 1), end))

\* parsePrefixedName
parsePrefixedName(input, p, pos) ==
    Bind(FirstFrom(input, pos, LAMBDA ch : ch = ":" \/ ~isNameChar(ch)),
         LAMBDA colon :
           IF colon > Len(input) \/ At(input, colon) # ":"
           THEN Error("expected ':' in prefixed name", colon)
           ELSE Bind(FirstFrom(input, colon + 1, LAMBDA ch : ~isNameChar(ch)),
                     LAMBDA end :
                       LET prefix == SubSeq(input, pos, colon - 1)
                           local == SubSeq(input, colon + 1, end - 1)
                       IN  IF prefix \in DOMAIN p.prefixes
                           THEN Term(p.prefixes[prefix] \o local, end)
                           ELSE Term(prefix \o ":" \o local, end)))

\* the loop of parseLiteral over a string in single quotes: the position of
\* the closing quote, or the position after the end
RECURSIVE ClosingQuote(_, _)
ClosingQuote(input, pos) ==
    Bind(FirstFrom(input, pos, LAMBDA ch : ch = "\"" \/ ch = "\\"),
         LAMBDA q :
           IF q > Len(input) \/ At(input, q) = "\"" THEN q
           ELSE IF q + 1 <= Len(input) THEN ClosingQuote(input, q + 2)
           ELSE ClosingQuote(input, q + 1))

\* parseLiteral, up to the closing quote: the text built and the position
Quoted(input, pos) ==
    IF lookingAt(input, pos, "\"\"\"")
    THEN LET ends == {q \in (pos + 3)..Len(input) : lookingAt(input, q, "\"\"\"")}
         IN  IF ends = {}
             THEN Term("\"" \o SubSeq(input, pos + 3, Len(input)), Len(input) + 1)
             ELSE Term("\"" \o SubSeq(input, pos + 3, Min(ends) - 1) \o "\"", Min(ends) + 3)
    ELSE Bind(ClosingQuote(input, pos + 1),
              LAMBDA close :
                Term("\"" \o SubSeq(input, pos + 1, close - 1) \o "\"",
                     IF close <= Len(input) THEN close + 1 ELSE close))

\* parseLiteral: the language tag or the datatype is added to the text; an
\* error of parseIRI or parsePrefixedName in the datatype is dropped
parseLiteral(input, p, pos) ==
    Bind(Quoted(input, pos),
         LAMBDA quoted :
           LET at == quoted.pos
               isIRI == at + 2 <= Len(input) /\ At(input, at + 2) = "<"
           IN  IF at <= Len(input) /\ At(input, at) = "@"
               THEN Bind(FirstFrom(input, at + 1, LAMBDA ch : ~(isAlphaNum(ch) \/ ch = "-")),
                         LAMBDA end :
                           Term(quoted.value \o "@" \o SubSeq(input, at + 1, end - 1), end))
               ELSE IF lookingAt(input, at, "^^")
               THEN Bind(IF isIRI THEN parseIRI(input, at + 2)
                         ELSE parsePrefixedName(input, p, at + 2),
                         LAMBDA dt :
                           [Term(quoted.value \o "^^<"
                                   \o (IF isIRI THEN resolveIRI(p, dt.value) ELSE dt.value)
                                   \o ">",
                                 dt.pos)
                              EXCEPT !.ignored = IF dt.err THEN {dt.msg} ELSE {}])
               ELSE quoted)

\* an IRI between angle brackets, resolved
parseResolvedIRI(input, p, pos) ==
    Bind(parseIRI(input, pos),
         LAMBDA iri : IF iri.err THEN iri ELSE Term(resolveIRI(p, iri.value), iri.pos))

\* parseSubject
parseSubject(input, p, pos) ==
    Bind(skipWhitespaceAndComments(input, pos),
         LAMBDA q :
           IF q > Len(input) THEN Error("unexpected end of input", q)
           ELSE IF At(input, q) = "<" THEN parseResolvedIRI(input, p, q)
           ELSE IF lookingAt(input, q, "_:") THEN parseBlankNode(input, q)
           ELSE parsePrefixedName(input, p, q))

\* parsePredicate
parsePredicate(input, p, pos) ==
    Bind(skipWhitespaceAndComments(input, pos),
         LAMBDA q :
           IF q > Len(input) THEN Error("unexpected end of input", q)
           ELSE IF At(input, q) = "a"
                   /\ (q + 1 > Len(input) \/ ~isNameChar(At(input, q + 1)))
           THEN Term(RDFType, q + 1)
           ELSE IF At(input, q) = "<" THEN parseResolvedIRI(input, p, q)
           ELSE parsePrefixedName(input, p, q))

\* parseObject
parseObject(input, p, pos) ==
    Bind(skipWhitespaceAndComments(input, pos),
         LAMBDA q :
           IF q > Len(input) THEN Error("unexpected end of input", q)
           ELSE IF At(input, q) = "<" THEN parseResolvedIRI(input, p, q)
           ELSE IF lookingAt(input, q, "_:") THEN parseBlankNode(input, q)
           ELSE IF At(input, q) = "\"" THEN parseLiteral(input, p, q)
           ELSE parsePrefixedName(input, p, q))

\* what parseTriples returns: the triples of the statement and the
\* position, or an error, no triple, and the position it stopped at
Statement(triples, pos, ignored) ==
    [err |-> FALSE, msg |-> "", triples |-> triples, pos |-> pos, ignored |-> ignored]

NoStatement(failed) ==
    [err |-> TRUE, msg |-> failed.msg, triples |-> <<>>, pos |-> failed.pos, ignored |-> {}]

\* parseTriples, the loop over the object list of one predicate
RECURSIVE ObjectList(_, _, _, _, _, _)
ObjectList(input, p, pos, subject, predicate, got) ==
    Bind(parseObject(input, p, skipWhitespaceAndComments(input, pos)),
         LAMBDA object :
           IF object.err THEN NoStatement(object)
           ELSE Bind(
                  Statement(Append(got.triples, Triple(subject, predicate, object.value)),
                            skipWhitespaceAndComments(input, object.pos),
                            got.ignored \cup object.ignored),
                  LAMBDA more :
                    IF more.pos <= Len(input) /\ At(input, more.pos) = ","
                    THEN ObjectList(input, p, more.pos + 1, subject, predicate, more)
                    ELSE more))

\* parseTriples, the loop over the predicate-object list, after the
\* object list of a predicate
RECURSIVE PredicateObjectList(_, _, _, _, _)
AfterObjectList(input, p, subject, objects) ==
    Bind(skipWhitespaceAndComments(input, objects.pos),
         LAMBDA next :
           IF next > Len(input) THEN [objects EXCEPT !.pos = next]
           ELSE IF At(input, next) = ";"
           THEN Bind(skipWhitespaceAndComments(input, next + 1),
                     LAMBDA afterSemicolon :
                       IF afterSemicolon <= Len(input) /\ At(input, afterSemicolon) = "."
                       THEN [objects EXCEPT !.pos = afterSemicolon + 1]
                       ELSE PredicateObjectList(input, p, afterSemicolon, subject, objects))
           ELSE IF At(input, next) = "." THEN [objects EXCEPT !.pos = next + 1]
           ELSE [objects EXCEPT !.pos = next])

\* parseTriples, the loop over the predicate-object list
PredicateObjectList(input, p, pos, subject, got) ==
    Bind(skipWhitespaceAndComments(input, pos),
         LAMBDA q :
           IF q > Len(input) THEN Statement(got.triples, q, got.ignored)
           ELSE IF At(input, q) = "." THEN Statement(got.triples, q + 1, got.ignored)
           ELSE Bind(parsePredicate(input, p, q),
                     LAMBDA predicate :
                       IF predicate.err THEN NoStatement(predicate)
                       ELSE Bind(ObjectList(input, p, predicate.pos, subject,
                                            predicate.value, got),
                                 LAMBDA objects :
                                   IF objects.err THEN objects
                                   ELSE AfterObjectList(input, p, subject, objects))))

\* parseTriples
parseTriples(input, p, pos) ==
    Bind(parseSubject(input, p, pos),
         LAMBDA subject :
           IF subject.err THEN NoStatement(subject)
           ELSE PredicateObjectList(input, p, subject.pos, subject.value,
                                    Statement(<<>>, pos, {})))

\* skipToNextStatement
skipToNextStatement(input, pos) ==
    Bind(FirstFrom(input, pos, LAMBDA ch : ch = "."),
         LAMBDA q : IF q <= Len(input) THEN q + 1 ELSE q)

\* Parse without the two assignments that follow
ResetKeepsDeclarations(p) == p

\* `p.prefixes = make(map[string]string)` and `p.base = ""` at the start of
\* Parse
Reset(p) == [p EXCEPT !.prefixes = <<>>, !.base = ""]

\* what Parse returns: the error or the triples, the parser as the call
\* leaves it, the errors of the statements that were skipped and the errors
\* that were dropped
Parsed(err, msg, p, got) ==
    [err |-> err, msg |-> msg, triples |-> IF err THEN <<>> ELSE got.triples,
     parser |-> p, skipped |-> got.skipped, ignored |-> got.ignored]

\* the loop of Parse
RECURSIVE ParseLoop(_, _, _, _)
ParseLoop(input, p, pos, got) ==
    Bind(skipWhitespaceAndComments(input, pos),
         LAMBDA q :
           IF q > Len(input) THEN Parsed(FALSE, "", p, got)
           ELSE IF lookingAt(input, q, "@prefix")
                   \/ lookingAtCaseInsensitive(input, q, "PREFIX")
           THEN Bind(parsePrefix(input, p, q),
                     LAMBDA prefix :
                       IF prefix.err THEN Parsed(TRUE, prefix.msg, p, got)
                       ELSE ParseLoop(input, prefix.parser, prefix.pos, got))
           ELSE IF lookingAt(input, q, "@base") \/ lookingAtCaseInsensitive(input, q, "BASE")
           THEN Bind(parseBase(input, p, q),
                     LAMBDA base :
                       IF base.err THEN Parsed(TRUE, base.msg, p, got)
                       ELSE ParseLoop(input, base.parser, base.pos, got))
           ELSE Bind(parseTriples(input, p, q),
                     LAMBDA statement :
                       IF statement.err
                       THEN Bind([got EXCEPT !.skipped = Append(@, statement.msg)],
                                 LAMBDA kept :
                                   ParseLoop(input, p,
                                             skipToNextStatement(input, statement.pos),
                                             kept))
                       ELSE Bind([got EXCEPT !.triples = @ \o statement.triples,
                                             !.ignored = @ \cup statement.ignored],
                                 LAMBDA kept : ParseLoop(input, p, statement.pos, kept))))

\* TurtleParser.Parse(content) on the parser p: the error or the triples,
\* and the parser as the call leaves it
Parse(p, content) ==
    Bind(ReplaceAll(content, "\r\n", "\n"),
         LAMBDA input :
           ParseLoop(input, Reset(p), 1,
                     [triples |-> <<>>, skipped |-> <<>>, ignored |-> {}]))

-----------------------------------------------------------------------------
(* LoadTurtle on text.  A text is written piece by piece, a statement on   *)
(* each line, and handed to Reasoner.LoadTurtle; the next text is for the  *)
(* same reasoner.  With each text goes what its writer means by it: the    *)
(* declarations in force and the triples of its well-formed statements.    *)

MaxPieces == 3

\* a term as written: an IRI between angle brackets, or a prefixed name
IRIRef(iri) == [text |-> "<" \o iri \o ">", iri |-> iri, prefix |-> "", local |-> ""]

PrefixedName(prefix, local) ==
    [text |-> prefix \o ":" \o local, iri |-> "", prefix |-> prefix, local |-> local]

\* the term that a written term stands for under the declarations decl
Meant(term, decl) ==
    IF term.iri # ""
    THEN IF Index(term.iri, "://") # 0 \/ HasPrefix(term.iri, "#") \/ decl.base = ""
         THEN term.iri
         ELSE decl.base \o term.iri
    ELSE IF term.prefix \in DOMAIN decl.prefixes
         THEN decl.prefixes[term.prefix] \o term.local
         ELSE term.prefix \o ":" \o term.local

\* well-formed statements: prefixed names of the prefix ex, a relative IRI
\* and an IRI that begins with '#'
WrittenTriples ==
    { <<PrefixedName("ex", "a"), IRIRef("s"), PrefixedName("ex", "c")>>,
      <<IRIRef("r"), PrefixedName("ex", "b"), IRIRef("#t")>> }

\* well-formed declarations
WrittenDeclarations ==
    { [text |-> "@prefix ex: <x://e/> .\n",
       decl |-> [prefixes |-> ("ex" :> "x://e/"), base |-> ""]],
      [text |-> "@base <x://b/> .\n",
       decl |-> [prefixes |-> <<>>, base |-> "x://b/"]] }

\* malformed statements: a declaration whose IRI is not closed, a base that
\* is no IRI; a triple whose object is an IRI that is not closed, a triple
\* without an object, a triple whose predicate is no term, a literal whose
\* datatype is an IRI that is not closed
MalformedStatements ==
    { [text |-> "@prefix ex: <x://e/ .\n", kind |-> "declaration"],
      [text |-> "@base x://b/ .\n", kind |-> "declaration"],
      [text |-> "<r> <s> <t .\n", kind |-> "unterminated"],
      [text |-> "<r> <s> .\n", kind |-> "triple"],
      [text |-> "<r> = <t> .\n", kind |-> "predicate"],
      [text |-> "<r> <s> \"v\"^^<d .\n", kind |-> "datatype"] }

\* the text under the writer's hand: the one begun, or a new one after a
\* LoadTurtle
Draft ==
    IF call.op = "Write" THEN call
    ELSE [op |-> "Write", text |-> "", want |-> <<>>, decl |-> NewTurtleParser,
          malformed |-> {}, items |-> call.items]

TurtleInit ==
    /\ store = NewTripleStore
    /\ pc = "idle"
    /\ ruleIdx = 1
    /\ newInThisRound = 0
    /\ totalInferred = 0
    /\ call = [op |-> "Write", text |-> "", want |-> <<>>, decl |-> NewTurtleParser,
               malformed |-> {}, items |-> 0]
    /\ everAdded = {}
    /\ nCalls = 0
    /\ inferred = <<>>
    /\ program = [Facts |-> <<>>, Rules |-> <<>>]
    /\ loaded = {}
    /\ parser = NewTurtleParser

Write(draft) ==
    /\ pc = "idle"
    /\ call.items < MaxPieces
    /\ call' = [draft EXCEPT !.items = @ + 1]
    /\ UNCHANGED <<store, pc, ruleIdx, newInThisRound, totalInferred, everAdded, nCalls,
                   inferred, program, loaded, parser>>

WriteTriple(t) ==
    Write([Draft EXCEPT
             !.text = @ \o t[1].text \o " " \o t[2].text \o " " \o t[3].text \o " .\n",
             !.want = Append(@, Triple(Meant(t[1], Draft.decl), Meant(t[2], Draft.decl),
                                       Meant(t[3], Draft.decl)))])

WriteDeclaration(d) ==
    Write([Draft EXCEPT
             !.text = @ \o d.text,
             !.decl = [prefixes |-> d.decl.prefixes @@ @.prefixes,
                       base |-> IF d.decl.base # "" THEN d.decl.base ELSE @.base]])

WriteMalformed(m) ==
    Write([Draft EXCEPT !.text = @ \o m.text, !.malformed = @ \cup {m.kind}])

\* Reasoner.LoadTurtle(content) on the text written
LoadTurtleCall ==
    /\ pc = "idle"
    /\ call.op = "Write"
    /\ \E r \in {Parse(parser, call.text)} :
         /\ parser' = r.parser
         /\ IF r.err
            THEN UNCHANGED <<store, everAdded, loaded>>
            ELSE /\ store' = AddAll(store, r.triples, 0).store
                 /\ everAdded' = everAdded \cup Range(r.triples)
                 /\ loaded' = loaded \cup Range(r.triples)
         /\ call' = [op |-> "LoadTurtle", arg |-> r.triples, ret |-> r.err,
                     pre |-> store.tripleList, text |-> call.text, want |-> call.want,
                     decl |-> call.decl, malformed |-> call.malformed,
                     items |-> call.items, msg |-> r.msg, skipped |-> r.skipped,
                     ignored |-> r.ignored, before |-> parser]
    /\ nCalls' = nCalls + 1
    /\ UNCHANGED <<pc, ruleIdx, newInThisRound, totalInferred, inferred, program>>

TurtleNext ==
    \/ \E t \in WrittenTriples : WriteTriple(t)
    \/ \E d \in WrittenDeclarations : WriteDeclaration(d)
    \/ \E m \in MalformedStatements : WriteMalformed(m)
    \/ LoadTurtleCall

TurtleSpec == TurtleInit /\ [][TurtleNext]_vars

-----------------------------------------------------------------------------
(* The catalogue of section 4.4 as Horn rules over a set S of triples, and  *)
(* its least model                                                          *)

With(S, P) == {t \in S : t.Predicate = P}

\* (X P Y), (Y P Z), X # Z => (X P Z)
Chain(S, P) ==
    {Triple(pr[1].Subject, P, pr[2].Object) :
       pr \in {q \in With(S, P) \X With(S, P) : q[1].Object = q[2].Subject /\ q[1].Subject # q[2].Object}}

\* (X P Y) => (Y P X)
Mirror(S, P) == {Triple(t.Object, P, t.Subject) : t \in With(S, P)}

Consequences(S) ==
    Chain(S, RDFSSubClassOf)
    \cup {Triple(pr[1].Subject, RDFType, pr[2].Object) :
            pr \in {q \in With(S, RDFType) \X With(S, RDFSSubClassOf) : q[1].Object = q[2].Subject}}
    \cup {Triple(pr[2].Subject, RDFType, pr[1].Object) :
            pr \in {q \in With(S, RDFSDomain) \X S : q[2].Predicate = q[1].Subject}}
    \cup {Triple(pr[2].Object, RDFType, pr[1].Object) :
            pr \in {q \in With(S, RDFSRange) \X S :
                      q[2].Predicate = q[1].Subject /\ ~IsLiteral(q[2].Object)}}
    \cup Chain(S, RDFSSubPropertyOf)
    \cup {Triple(pr[2].Subject, pr[1].Object, pr[2].Object) :
            pr \in {q \in With(S, RDFSSubPropertyOf) \X S : q[2].Predicate = q[1].Subject}}
    \cup Mirror(S, OWLEquivalentClass)
    \cup Chain(S, OWLEquivalentClass)
    \cup Mirror(S, OWLSameAs)
    \cup Chain(S, OWLSameAs)
    \cup {Triple(pr[2].Object, pr[1].Object, pr[2].Subject) :
            pr \in {q \in With(S, OWLInverseOf) \X S : q[2].Predicate = q[1].Subject}}
    \cup {Triple(pr[2].Object, pr[1].Subject, pr[2].Subject) :
            pr \in {q \in With(S, OWLInverseOf) \X S : q[2].Predicate = q[1].Object}}
    \cup UNION {Chain(S, t.Subject) : t \in {u \in With(S, RDFType) : u.Object = OWLTransitiveProperty}}
    \cup UNION {Mirror(S, t.Subject) : t \in {u \in With(S, RDFType) : u.Object = OWLSymmetricProperty}}

RECURSIVE LeastModel(_)
LeastModel(S) == IF Consequences(S) \subseteq S THEN S ELSE LeastModel(S \cup Consequences(S))

Stored == Range(store.tripleList)

Returned == pc = "idle" /\ call.op = "RunForwardReasoning"

\* no two triples of S have the same tripleKey
KeysApart(S) == \A t, u \in S : tripleKey(t) = tripleKey(u) => t = u

-----------------------------------------------------------------------------
(* The claims *)

\* C1: when RunForwardReasoning has returned, the store holds exactly the
\* least set of triples that contains the triples stored before the call and
\* is closed under the thirteen rules.
C1_LeastModel == Returned => Stored = LeastModel(Range(call.pre))

\* C1, where no two triples of the least model share a key: the store is the
\* least model.
C1_LeastModelKeysApart ==
    (Returned /\ KeysApart(LeastModel(Range(call.pre)))) => Stored = LeastModel(Range(call.pre))

\* C2: when RunForwardReasoning has returned, each of the thirteen rules,
\* applied once more, proposes no triple that is not in the store.
C2_FixedPoint ==
    Returned =>
      \A i \in 1..NumRules : \A order \in RuleOrders(store, i) :
        Range(DefaultRules(store, i, order)) \subseteq Stored

C2_Witness == Returned /\ call.ret > 0 /\ Len(store.tripleList) >= 8

\* C3: RunForwardReasoning terminates: a call that has entered the loop
\* returns.
C3_Terminates == (pc = "rules") ~> (pc = "idle")

C3_Witness ==
    /\ Returned
    /\ call.ret > 0
    /\ Triple(A, RDFSSubClassOf, B) \in Stored
    /\ Triple(C, RDFSSubClassOf, A) \in Stored

\* C4: a second RunForwardReasoning with no Add or LoadTurtle since the
\* first returned returns zero and leaves the store as it was.
C4_Idempotent == (Returned /\ call.again) => (call.ret = 0 /\ store.tripleList = call.pre)

C4_Witness == Returned /\ call.again /\ Len(store.tripleList) >= 8

\* C5: the value RunForwardReasoning returns is the number of triples the
\* store has gained during the call.
C5_ReturnsGrowth == Returned => call.ret = Len(store.tripleList) - Len(call.pre)

\* a call during which a rule proposed one triple twice
C5_Witness ==
    /\ Returned
    /\ call.ret > 0
    /\ Triple(A, OWLInverseOf, A) \in Range(call.pre)
    /\ Triple(B, A, C) \in Range(call.pre)
    /\ Triple(C, A, B) \in Stored

\* C6: Add returns true exactly on the first call for each distinct triple,
\* and every triple ever passed to Add is stored.
C6_NewExactlyOnce ==
    /\ call.op = "Add" => (call.ret <=> call.first)
    /\ everAdded \subseteq Stored

\* C7: every stored triple's position is held exactly once by the subject
\* index under its subject, by the predicate index under its predicate and by
\* the object index under its object, and every position an index entry holds
\* is that of a stored triple whose component is the entry's key.
C7_IndexConsistency ==
    /\ \A i \in 1..Len(store.tripleList) :
         LET t == store.tripleList[i]
         IN  /\ Count(Lookup(store.bySubject, t.Subject), i - 1) = 1
             /\ Count(Lookup(store.byPredicate, t.Predicate), i - 1) = 1
             /\ Count(Lookup(store.byObject, t.Object), i - 1) = 1
    /\ \A k \in DOMAIN store.bySubject : \A j \in 1..Len(store.bySubject[k]) :
         /\ store.bySubject[k][j] \in 0..(Len(store.tripleList) - 1)
         /\ store.tripleList[store.bySubject[k][j] + 1].Subject = k
    /\ \A k \in DOMAIN store.byPredicate : \A j \in 1..Len(store.byPredicate[k]) :
         /\ store.byPredicate[k][j] \in 0..(Len(store.tripleList) - 1)
         /\ store.tripleList[store.byPredicate[k][j] + 1].Predicate = k
    /\ \A k \in DOMAIN store.byObject : \A j \in 1..Len(store.byObject[k]) :
         /\ store.byObject[k][j] \in 0..(Len(store.tripleList) - 1)
         /\ store.tripleList[store.byObject[k][j] + 1].Object = k

\* a store in which an index entry holds several positions, after Add calls
C7_Witness ==
    /\ call.op = "Add"
    /\ call.ret
    /\ \E k \in DOMAIN store.byObject : Len(store.byObject[k]) >= 2
    /\ \E k \in DOMAIN store.bySubject : Len(store.bySubject[k]) >= 3

\* C9: every step leaves the list All returns a prefix of the list it returns
\* after the step.
C9_GrowsAtEnd == [][IsPrefix(All(store), All(store'))]_vars

\* a store that grew by the caller's calls, in a first round of reasoning and
\* again in a later round
C9_Witness ==
    /\ pc = "rules"
    /\ nCalls >= 2
    /\ Len(call.pre) >= 3
    /\ totalInferred > 0
    /\ newInThisRound > 0
\* seq lists exactly the triples of the set S, each once
ListsExactly(seq, S) == Range(seq) = S /\ Len(seq) = Cardinality(S)

\* C8: Contains(t) is true iff t is one of the triples All returns, and each
\* FindBy call returns exactly the stored triples whose named components
\* equal its arguments, each once.
C8_Lookups ==
    /\ call.op = "Contains" => (call.ret <=> call.arg \in Range(All(store)))
    /\ call.op = "FindBySubject" =>
         ListsExactly(call.ret, {t \in Stored : t.Subject = call.arg[1]})
    /\ call.op = "FindByPredicate" =>
         ListsExactly(call.ret, {t \in Stored : t.Predicate = call.arg[1]})
    /\ call.op = "FindByObject" =>
         ListsExactly(call.ret, {t \in Stored : t.Object = call.arg[1]})
    /\ call.op = "FindBySubjectPredicate" =>
         ListsExactly(call.ret, {t \in Stored : t.Subject = call.arg[1] /\ t.Predicate = call.arg[2]})
    /\ call.op = "FindByPredicateObject" =>
         ListsExactly(call.ret, {t \in Stored : t.Predicate = call.arg[1] /\ t.Object = call.arg[2]})

\* C8 without Contains: the five FindBy calls return exactly the matching
\* stored triples.
C8_FindsExact ==
    call.op \in {"FindBySubject", "FindByPredicate", "FindByObject",
                 "FindBySubjectPredicate", "FindByPredicateObject"} => C8_Lookups

\* C10: Query(s, p, o) returns exactly the stored triples that agree with
\* each non-empty argument, each once; with all three empty, all of them.
C10_QueryExact ==
    call.op = "Query" =>
      ListsExactly(call.ret,
                   {t \in Stored : /\ call.arg[1] # "" => t.Subject = call.arg[1]
                                   /\ call.arg[2] # "" => t.Predicate = call.arg[2]
                                   /\ call.arg[3] # "" => t.Object = call.arg[3]})

\* a query with the subject and the object bound that keeps one stored triple
\* of that subject and drops another
C10_Witness ==
    /\ call.op = "Query"
    /\ call.arg[1] # "" /\ call.arg[2] = "" /\ call.arg[3] # ""
    /\ Len(call.ret) >= 1
    /\ \E t \in Stored : t.Subject = call.arg[1] /\ t.Object # call.arg[3]

\* C11: applying a rule leaves the store as it is and returns what the rule
\* proposes against that store; during a run the store changes only when the
\* driver inserts the triples the rule has returned.
C11_RulesLeaveStore ==
    [][/\ (pc = "rules" /\ pc' = "insert") =>
            /\ store' = store
            /\ \E order \in RuleOrders(store, ruleIdx) : inferred' = DefaultRules(store, ruleIdx, order)
       /\ (pc # "idle" /\ store' # store) =>
            /\ pc = "insert"
            /\ IsPrefix(store.tripleList, store'.tripleList)
            /\ Range(store'.tripleList) \ Range(store.tripleList) \subseteq Range(inferred)]_vars

\* a rule has returned several proposals and none of them is in the store yet
C11_Witness ==
    /\ pc = "insert"
    /\ Len(inferred) >= 2
    /\ Range(inferred) \cap Stored = {}
    /\ Len(store.tripleList) > Len(call.pre)
\* the rule of position i has just been applied
Applied(i) == call.op = "Apply" /\ call.arg = i

\* C12 as stated: no triple the range rule returns has a literal as its
\* object.
C12_NoLiteralObject == Applied(4) => \A n \in Range(call.ret) : ~IsLiteral(n.Object)

\* C12, amended: no triple the range rule returns has a literal as its
\* subject, that is, no literal object of a stored triple is given a type.
C12_NoLiteralSubject == Applied(4) => \A n \in Range(call.ret) : ~IsLiteral(n.Subject)

\* the range rule has returned a type for an IRI and has passed over a
\* literal that is the object of a triple of the same property
C12_Witness ==
    /\ Applied(4)
    /\ call.ret # <<>>
    /\ \E rt, t \in Stored :
         rt.Predicate = RDFSRange /\ t.Predicate = rt.Subject /\ IsLiteral(t.Object)

\* C13: the range rule returns (Y rdf:type C) for every stored pair
\* (P rdfs:range C), (X P Y) with Y no literal and (Y rdf:type C) not stored,
\* and returns no triple with a literal subject; the domain rule returns
\* (X rdf:type C) for every stored pair (P rdfs:domain C), (X P Y) with
\* (X rdf:type C) not stored, whether Y is a literal or not.
C13_RangeAndDomain ==
    /\ Applied(4) =>
         /\ \A rt, t \in Stored :
              (/\ rt.Predicate = RDFSRange
               /\ t.Predicate = rt.Subject
               /\ ~IsLiteral(t.Object)
               /\ Triple(t.Object, RDFType, rt.Object) \notin Stored)
              => Triple(t.Object, RDFType, rt.Object) \in Range(call.ret)
         /\ \A n \in Range(call.ret) : ~IsLiteral(n.Subject)
    /\ Applied(3) =>
         \A dt, t \in Stored :
           (/\ dt.Predicate = RDFSDomain
            /\ t.Predicate = dt.Subject
            /\ Triple(t.Subject, RDFType, dt.Object) \notin Stored)
           => Triple(t.Subject, RDFType, dt.Object) \in Range(call.ret)

\* C13 for stores in which no two triples, stored or proposed, share a key
C13_RangeAndDomainKeysApart ==
    KeysApart(Stored \cup {Triple(t.Object, RDFType, rt.Object) : rt, t \in Stored})
      => C13_RangeAndDomain

\* C14: no triple returned by the subClassOf, subPropertyOf, equivalentClass
\* or sameAs transitivity rule or by the transitive-property rule has its
\* subject as its object.
C14_NoReflexive ==
    (call.op = "Apply" /\ call.arg \in {1, 5, 8, 10, 12}) =>
      \A n \in Range(call.ret) : n.Subject # n.Object

\* the subClassOf rule has returned a triple from a store in which a chain of
\* two subClassOf triples leads back to its start
C14_Witness ==
    /\ Applied(1)
    /\ call.ret # <<>>
    /\ \E t1, t2 \in Stored :
         /\ t1.Predicate = RDFSSubClassOf /\ t2.Predicate = RDFSSubClassOf
         /\ t1.Object = t2.Subject /\ t2.Object = t1.Subject
\* C15: when RunForwardReasoning has returned, for every P stored as an
\* owl:SymmetricProperty and all x, y: (x P y) is stored iff (y P x) is.
C15_SymmetricClosed ==
    Returned =>
      \A d, t \in Stored :
        (d.Predicate = RDFType /\ d.Object = OWLSymmetricProperty /\ t.Predicate = d.Subject)
        => Triple(t.Object, t.Predicate, t.Subject) \in Stored

\* C15 for runs in which no two triples of the least model share a key
C15_SymmetricClosedKeysApart ==
    (Returned /\ KeysApart(LeastModel(Range(call.pre)))) => C15_SymmetricClosed

\* the store that adding the triples of a list, in its order, gives
StoreOf(triples) == AddAll(NewTripleStore, triples, 0).store

\* C16: the list ForwardReason returns (GetAllTriples after saturation) is
\* sorted and is the list that the run of Saturate, with its one fixed order
\* of the properties in rules 12 and 13, gives for the same loaded triples.
C16_SortedSameOnEveryRun ==
    (call.op = "ForwardReason" /\ call.done /\ ~call.err) =>
      /\ IsSorted(call.out)
      /\ call.out = GetAllTriples(Saturate(StoreOf(call.pre)))

\* C16 for inputs in which no two triples of the least model share a key
C16_SortedSameOnEveryRunKeysApart ==
    (call.op = "ForwardReason" /\ call.done /\ ~call.err
       /\ KeysApart(LeastModel(Range(call.pre))))
      => C16_SortedSameOnEveryRun

\* C17: when RunForwardReasoning has returned, the set of stored triples is
\* the one a single run gives on the set of triples loaded so far, in
\* whatever order and between whatever earlier runs they were loaded.
C17_DependsOnLoadedSet ==
    Returned => Stored = Range(Saturate(StoreOf(SeqOf(loaded))).tripleList)

\* C17 for loaded sets in which no two triples of the least model share a key
C17_DependsOnLoadedSetKeysApart ==
    (Returned /\ KeysApart(LeastModel(loaded))) => C17_DependsOnLoadedSet

\* ForwardReasonWithDetails has returned a record
Detailed == call.op = "ForwardReasonWithDetails" /\ call.done /\ ~call.err

\* C18: in the record of ForwardReasonWithDetails, InferredTriples is exactly
\* the entries of AllTriples that are not in OriginalTriples, and
\* OriginalCount, InferredCount and TotalCount are the lengths of the three
\* lists, with TotalCount = OriginalCount + InferredCount.
C18_RecordAgrees ==
    Detailed =>
      LET r == call.out
      IN  /\ r.InferredTriples =
               SelectSeq(r.AllTriples, LAMBDA t : t \notin Range(r.OriginalTriples))
          /\ r.OriginalCount = Len(r.OriginalTriples)
          /\ r.InferredCount = Len(r.InferredTriples)
          /\ r.TotalCount = Len(r.AllTriples)
          /\ r.TotalCount = r.OriginalCount + r.InferredCount

\* no two triples of S have the same N-Triples line
LinesApart(S) == \A t, u \in S : String(t) = String(u) => t = u

\* C18 for inputs in which no two triples of the least model share a key or
\* a line
C18_RecordAgreesLinesApart ==
    (Detailed /\ KeysApart(LeastModel(Range(call.pre)))
       /\ LinesApart(LeastModel(Range(call.pre))))
      => C18_RecordAgrees

\* the variables and the constants of a set of atoms
VariablesOf(atoms) ==
    UNION {{a.Terms[i].Value : i \in {j \in 1..Len(a.Terms) : a.Terms[j].IsVariable}} : a \in atoms}

ConstantsOf(atoms) ==
    UNION {{a.Terms[i].Value : i \in {j \in 1..Len(a.Terms) : ~a.Terms[j].IsVariable}} : a \in atoms}

AtomsOfRule(rule) == {rule.Head} \cup Range(rule.Body)

ConstantsOfProgram(p) ==
    ConstantsOf(Range(p.Facts) \cup UNION {AtomsOfRule(rule) : rule \in Range(p.Rules)})

\* the atom under an assignment of constants to variables; a variable
\* without a constant stays
Under(a, sigma) ==
    [Predicate |-> a.Predicate,
     Terms |-> [i \in 1..Len(a.Terms) |->
                  IF a.Terms[i].IsVariable /\ a.Terms[i].Value \in DOMAIN sigma
                  THEN [Value |-> sigma[a.Terms[i].Value], IsVariable |-> FALSE]
                  ELSE a.Terms[i]]]

\* the heads of the rules of p under the assignments to all the variables
\* of a rule that map every body atom into R
HeadsAllVariables(p, R) ==
    UNION {{Under(rule.Head, sigma) :
              sigma \in {g \in [VariablesOf(AtomsOfRule(rule)) -> ConstantsOfProgram(p)] :
                           \A b \in Range(rule.Body) : Under(b, g) \in R}} :
           rule \in Range(p.Rules)}

\* the same with assignments to the variables of the body only, and only
\* the heads in which no variable is left
HeadsBodyVariables(p, R) ==
    UNION {{h \in {Under(rule.Head, sigma) :
                     sigma \in {g \in [VariablesOf(Range(rule.Body)) -> ConstantsOfProgram(p)] :
                                  \A b \in Range(rule.Body) : Under(b, g) \in R}} :
              VariablesOf({h}) = {}} :
           rule \in Range(p.Rules)}

GroundFactsOf(p) == {f \in Range(p.Facts) : VariablesOf({f}) = {}}

RECURSIVE LeastAllVariables(_, _)
LeastAllVariables(p, R) ==
    LET next == R \cup GroundFactsOf(p) \cup HeadsAllVariables(p, R)
    IN  IF next = R THEN R ELSE LeastAllVariables(p, next)

RECURSIVE LeastBodyVariables(_, _)
LeastBodyVariables(p, R) ==
    LET next == R \cup GroundFactsOf(p) \cup HeadsBodyVariables(p, R)
    IN  IF next = R THEN R ELSE LeastBodyVariables(p, next)

\* C19 as stated: Reason returns the least set of ground atoms that holds
\* the ground facts and every head of a rule under a substitution that maps
\* every body atom to an atom of the set.
C19_LeastModelAnySubstitution ==
    call.op = "Reason" => Range(call.ret) = LeastAllVariables(program, {})

\* C19: Reason returns the least set of ground atoms that holds the ground
\* facts and every head of a rule under a substitution of the variables of
\* the rule's body that maps every body atom to an atom of the set and
\* leaves no variable in the head; an atom is in the set iff it is such a
\* fact or such a head.
C19_LeastModelBodySubstitution ==
    call.op = "Reason" =>
      /\ Range(call.ret) = LeastBodyVariables(program, {})
      /\ Range(call.ret) = GroundFactsOf(program) \cup HeadsBodyVariables(program, Range(call.ret))

\* Reason has returned an atom that is neither a ground fact nor the head of
\* a rule over the ground facts: it took a second round
C19_Witness ==
    /\ call.op = "Reason"
    /\ Range(call.ret) \ (GroundFactsOf(program)
                            \cup HeadsBodyVariables(program, GroundFactsOf(program))) # {}

\* the query and the fact agree wherever the query has a constant
Agree(query, f) ==
    /\ f.Predicate = query.Predicate
    /\ Len(f.Terms) = Len(query.Terms)
    /\ \A i \in 1..Len(query.Terms) :
         ~query.Terms[i].IsVariable => query.Terms[i].Value = f.Terms[i].Value

\* C20: EvaluateQuery returns TRUE iff some derived fact has the predicate
\* and the number of terms of the query and equals it wherever the query
\* term is not a variable; with no derived fact of that predicate or arity
\* it returns FALSE.
C20_QueryMatches ==
    call.op = "EvaluateQuery" =>
      /\ call.ret \in BOOLEAN
      /\ call.ret = ({f \in Range(call.facts) : Agree(call.arg, f)} # {})
      /\ (\A f \in Range(call.facts) :
            f.Predicate # call.arg.Predicate \/ Len(f.Terms) # Len(call.arg.Terms))
           => call.ret = FALSE

\* a query with a variable was answered TRUE, and a query whose predicate
\* the derived facts have, with another number of terms, was answered FALSE
C20_Witness ==
    /\ call.op = "EvaluateQuery"
    /\ \/ /\ call.ret
          /\ \E i \in 1..Len(call.arg.Terms) : call.arg.Terms[i].IsVariable
       \/ /\ ~call.ret
          /\ \E f \in Range(call.facts) :
               f.Predicate = call.arg.Predicate /\ Len(f.Terms) # Len(call.arg.Terms)

\* an EvaluateQuery call whose query has a variable
QueriedWithVariable ==
    call.op = "EvaluateQuery" /\ VariablesOf({call.arg}) # {}

\* C21: a query with variables is answered TRUE iff some assignment of one
\* constant to each of its variables, the same at every occurrence, makes
\* the query equal to a derived fact.
C21_BindingExists ==
    QueriedWithVariable =>
      call.ret = (\E sigma \in [VariablesOf({call.arg}) -> ConstantsOf(Range(call.facts))] :
                    Under(call.arg, sigma) \in Range(call.facts))

\* no variable of the atom stands at two positions
NoVariableTwice(a) ==
    \A i, j \in 1..Len(a.Terms) :
      (a.Terms[i].IsVariable /\ a.Terms[i].Value = a.Terms[j].Value) => i = j

\* C21 for queries in which no variable occurs twice
C21_BindingExistsNoVariableTwice ==
    (QueriedWithVariable /\ NoVariableTwice(call.arg)) => C21_BindingExists

\* a rule whose head has a variable that its body does not bind
HeadUnbound(rule) == ~(VariablesOf({rule.Head}) \subseteq VariablesOf(Range(rule.Body)))

\* the program without its facts that hold a variable and without its rules
\* whose head the body does not bind
Grounded(p) ==
    [Facts |-> SelectSeq(p.Facts, LAMBDA f : VariablesOf({f}) = {}),
     Rules |-> SelectSeq(p.Rules, LAMBDA rule : ~HeadUnbound(rule))]

\* C22: every atom Reason returns is ground; a program fact with a variable
\* is not in the result, and the result, hence the answer to every query,
\* is the one of the program without such facts and without the rules whose
\* head has a variable the body does not bind.
C22_ResultGround ==
    /\ call.op = "Reason" =>
         /\ \A i \in 1..Len(call.ret) :
              \A j \in 1..Len(call.ret[i].Terms) : ~call.ret[i].Terms[j].IsVariable
         /\ \A f \in Range(program.Facts) : VariablesOf({f}) # {} => f \notin Range(call.ret)
         /\ call.ret = Reason(Grounded(program))
    /\ call.op = "EvaluateQuery" =>
         call.ret = EvaluateQuery(call.arg, Reason(Grounded(program)))

\* Reason has returned for a program with a fact that holds a variable and a
\* rule with an unbound head variable whose body the result satisfies
C22_Witness ==
    /\ call.op = "Reason"
    /\ \E f \in Range(program.Facts) : VariablesOf({f}) # {}
    /\ \E rule \in Range(program.Rules) :
         /\ HeadUnbound(rule)
         /\ findSubstitutions(rule.Body, call.ret, <<>>) # <<>>

\* two ways to rename the variables X, Y, Z and ?x, each to another name
\* that is a variable: to longer names, and among themselves
Renamings ==
    { [v \in {"X", "Y", "Z", "?x"} |->
         CASE v = "X" -> "VAR_X" [] v = "Y" -> "VAR_Y" [] v = "Z" -> "NODE1" [] v = "?x" -> "?person"],
      [v \in {"X", "Y", "Z", "?x"} |->
         CASE v = "X" -> "Y" [] v = "Y" -> "Z" [] v = "Z" -> "X" [] v = "?x" -> "P_2"] }

\* the atom as parseAtom reads it when its variables are written by rho
RenamedAtom(a, rho) ==
    [Predicate |-> a.Predicate,
     Terms |-> [i \in 1..Len(a.Terms) |->
                  IF a.Terms[i].IsVariable
                  THEN [Value |-> rho[a.Terms[i].Value],
                        IsVariable |-> isVariable(rho[a.Terms[i].Value])]
                  ELSE a.Terms[i]]]

\* the program with the variables of every rule renamed
RenamedProgram(p, rho) ==
    [Facts |-> p.Facts,
     Rules |-> [k \in 1..Len(p.Rules) |->
                  [Head |-> RenamedAtom(p.Rules[k].Head, rho),
                   Body |-> [i \in 1..Len(p.Rules[k].Body) |->
                               RenamedAtom(p.Rules[k].Body[i], rho)]]]]

\* C23: with the variables of its rules renamed to other variable names,
\* each variable to a name of its own, a program has the same derived facts
\* and gives every query the same answer.
C23_RenamingKeepsAnswers ==
    \A rho \in Renamings :
      /\ call.op = "Reason" => Reason(RenamedProgram(program, rho)) = call.ret
      /\ call.op = "EvaluateQuery" =>
           EvaluateQuery(call.arg, Reason(RenamedProgram(program, rho))) = call.ret

\* a query was answered TRUE by a fact that only a rule with variables gives
C23_Witness ==
    /\ call.op = "EvaluateQuery"
    /\ call.ret
    /\ ~EvaluateQuery(call.arg, GroundFacts(program.Facts, <<>>))
    /\ \E rule \in Range(program.Rules) : VariablesOf(AtomsOfRule(rule)) # {}

\* C24: ParseDatalog gives one fact for each statement with a period and
\* without ":-", one rule for each statement with ":-", nothing for the text
\* of a comment, and the same rule whether or not a period stands between
\* its head and ":-": the program parsed is the program meant.
C24_OneStatementEach ==
    call.op = "ParseDatalog" => (~call.ret.err /\ call.ret.program = call.want)

\* C24 for texts in which no line ends between the period after a head and
\* the ":-"
C24_OneStatementEachOnOneLine ==
    (call.op = "ParseDatalog" /\ ".\n" \notin call.joints) => C24_OneStatementEach

\* a package function has run RunForwardReasoning to its end
Saturated ==
    /\ call.op \in {"ForwardReason", "ForwardReasonWithDetails"}
    /\ ~call.err
    /\ pc = "idle"
    /\ call.ret >= 0

\* C25: every rule proposes its triples in the insertion order of its
\* driving index, so All() after saturation is the list that the run in
\* that order gives for the same loaded triples.
C25_AllInInsertionOrder ==
    Saturated => All(store) = All(Saturate(StoreOf(call.pre)))

\* C25 for inputs with at most one transitive and at most one symmetric
\* property after saturation
C25_AllInInsertionOrderOneProperty ==
    (Saturated /\ Cardinality(PropsOfKind(store, OWLTransitiveProperty)) <= 1
       /\ Cardinality(PropsOfKind(store, OWLSymmetricProperty)) <= 1)
      => C25_AllInInsertionOrder

\* C25 for inputs in which no two triples of the least model share a key
C25_AllInInsertionOrderKeysApart ==
    (Saturated /\ KeysApart(LeastModel(Range(call.pre)))) => C25_AllInInsertionOrder

\* the terms of a set of triples, whatever their position
TermsOf(S) == UNION {{t.Subject, t.Predicate, t.Object} : t \in S}

\* C26: subject, predicate and object of every triple that a rule proposes
\* occur as terms of triples in the store.
C26_NoFreshTerm ==
    call.op = "Apply" => TermsOf(Range(call.ret)) \subseteq TermsOf(Stored)

\* C26, amended: subject and object of every triple that a rule proposes
\* occur as terms of triples in the store, and so does its predicate, unless
\* the rule is the domain or the range rule and the predicate is rdf:type.
C26_NoFreshTermButType ==
    call.op = "Apply" =>
      \A t \in Range(call.ret) :
        /\ {t.Subject, t.Object} \subseteq TermsOf(Stored)
        /\ \/ t.Predicate \in TermsOf(Stored)
           \/ t.Predicate = RDFType /\ call.arg \in {3, 4}

C26_Witness ==
    /\ call.op = "Apply"
    /\ call.arg = 3
    /\ call.ret # <<>>
    /\ RDFType \notin TermsOf(Stored)

\* C26 for a whole run: the terms of the store after saturation are those
\* before it, and rdf:type.
C26_TermsAfterSaturation ==
    Returned => /\ TermsOf(Range(call.pre)) \subseteq TermsOf(Stored)
                /\ TermsOf(Stored) \subseteq TermsOf(Range(call.pre)) \cup {RDFType}

\* C26 for a whole run, as stated
C26_TermsSameAfterSaturation ==
    Returned => TermsOf(Stored) = TermsOf(Range(call.pre))

\* a text has been loaded
Loaded == call.op = "LoadTurtle" /\ "text" \in DOMAIN call

\* the errors that parseIRI and the other functions gave during the call,
\* whatever Parse did with them
ErrorsSeen == {call.msg} \cup Range(call.skipped) \cup call.ignored

\* C27: when an IRI of the text is not terminated, in a declaration or in a
\* triple, LoadTurtle returns an error.
C27_UnterminatedIsFatal ==
    (Loaded /\ "unterminated IRI" \in ErrorsSeen) => call.ret

\* C28: when parsePrefix or parseBase fails, LoadTurtle returns an error and
\* the store is as before the call; when only triple statements of the text
\* are malformed, it returns no error and inserts the triples of the other
\* statements and no other.
C28_DeclarationFatalStatementDropped ==
    Loaded =>
      /\ call.ret => store.tripleList = call.pre
      /\ "declaration" \notin call.malformed =>
           /\ ~call.ret
           /\ call.arg = call.want
           /\ store = AddAll(StoreOf(call.pre), call.want, 0).store

\* C28, the first half
C28_DeclarationFailureLeavesStore ==
    (Loaded /\ call.ret) => (store.tripleList = call.pre /\ call.arg = <<>>)

\* C28, the second half for texts whose only malformed statements have a
\* predicate that is no term
C28_BadPredicateDropped ==
    (Loaded /\ call.malformed = {"predicate"}) =>
      /\ ~call.ret
      /\ call.arg = call.want
      /\ store = AddAll(StoreOf(call.pre), call.want, 0).store

\* C30: a text without malformed statement is loaded under its own
\* declarations and no other: no error, and the triples are those its terms
\* stand for under the declarations written in this text.
C30_OwnDeclarationsOnly ==
    (Loaded /\ call.malformed = {}) =>
      /\ ~call.ret
      /\ call.arg = call.want
      /\ parser = call.decl

\* an earlier text declared the prefix ex and a base, this one declares
\* nothing, and its prefixed names and its relative IRI are stored as written
C30_Witness ==
    /\ Loaded
    /\ call.malformed = {}
    /\ "ex" \in DOMAIN call.before.prefixes
    /\ call.before.base # ""
    /\ call.decl = NewTurtleParser
    /\ Triple("ex:a", "s", "ex:c") \in Range(call.arg)
    /\ Triple("ex:a", "s", "ex:c") \in Stored

\* C29: Reason, once entered, returns.
C29_ReasonTerminates ==
    (call.op = "Reason") ~> (call.op = "Reason" /\ call.done)

\* Reason has returned for a program with recursive rules (the head
\* predicate of each is in the body of the other, or of itself), after more
\* than one turn that added a fact
C29_Witness ==
    /\ call.op = "Reason"
    /\ call.done
    /\ \E i, j \in 1..Len(program.Rules) :
         /\ \E k \in 1..Len(program.Rules[j].Body) :
              program.Rules[j].Body[k].Predicate = program.Rules[i].Head.Predicate
         /\ \E k \in 1..Len(program.Rules[i].Body) :
              program.Rules[i].Body[k].Predicate = program.Rules[j].Head.Predicate
    /\ call.ret # ReasonOneRound(program)

\* the steps return what the function Reason gives
C29_StepsGiveReason ==
    (call.op = "Reason" /\ call.done) => call.ret = Reason(program)

====
